---- MODULE Spec2Model ----
(***************************************************************************)
(* Benchmark report generators of "Project1 SIMD/scripts":                 *)
(*   make_align_report.py, make_tail_report.py, make_dtype_report.py.      *)
(*                                                                         *)
(* Every script is a sequential batch run: read CSV -> filter -> join ->   *)
(* aggregate -> append the ALL row -> write.  A run is modelled as a       *)
(* state machine whose program counter walks the statements of main().     *)
(*                                                                         *)
(* Numbers.  The scripts compute in IEEE doubles with numpy semantics      *)
(* (x/0 = +-inf, 0/0 = nan, log(0) = -inf, log(<0) = nan, exp(-inf) = 0).  *)
(* The model keeps the special values and computes the finite ones         *)
(* exactly (rounding is not modelled): a finite real is a finite sum of    *)
(* terms  c * 2^(e1/d) * 3^(e2/d) * 5^(e3/d)  with c a non-zero rational   *)
(* and 0 <= ei < d, which is closed under everything the scripts do to     *)
(* 5-smooth inputs: log is the exponent vector, mean divides it, exp       *)
(* turns it back into a radical.                                           *)
(***************************************************************************)
EXTENDS Integers, Sequences, FiniteSets, TLC

\* ------------------------------------------------------------------------
\* Exact arithmetic: integers and rationals <<n, d>>, d > 0, lowest terms
\* ------------------------------------------------------------------------
Abs(a) == IF a < 0 THEN -a ELSE a

RECURSIVE GCD(_, _)
GCD(a, b) == IF b = 0 THEN Abs(a) ELSE GCD(b, a % Abs(b))

RECURSIVE IPow(_, _)
IPow(p, e) == IF e <= 0 THEN 1 ELSE p * IPow(p, e - 1)

Rat(n, d) ==
    LET s == IF d < 0 THEN -1 ELSE 1
        g == GCD(Abs(n), Abs(d))
    IN  <<(s * n) \div g, (s * d) \div g>>

RatInt(n) == <<n, 1>>
RatAdd(a, b) == Rat(a[1] * b[2] + b[1] * a[2], a[2] * b[2])
RatMul(a, b) == Rat(a[1] * b[1], a[2] * b[2])
RatInv(a) == Rat(a[2], a[1])
RatNeg(a) == <<-a[1], a[2]>>

\* The primes the radicals are written over
Primes == <<2, 3, 5>>
NP == Len(Primes)
ZeroVec == [i \in 1..NP |-> 0]

RECURSIVE Valuation(_, _)
\* exponent of the prime p in the positive integer n
Valuation(n, p) == IF n % p = 0 THEN 1 + Valuation(n \div p, p) ELSE 0

RECURSIVE VecProd(_, _)
\* prod_{i <= k} Primes[i]^v[i] as a rational, v an integer vector
VecProd(v, k) ==
    IF k = 0 THEN RatInt(1)
    ELSE LET p == Primes[k]
             f == IF v[k] >= 0 THEN <<IPow(p, v[k]), 1>> ELSE <<1, IPow(p, -v[k])>>
         IN  RatMul(VecProd(v, k - 1), f)

Smooth(n) == VecProd([i \in 1..NP |-> Valuation(n, Primes[i])], NP) = RatInt(n)

RECURSIVE VecGCD(_, _)
VecGCD(v, k) == IF k = 0 THEN 0 ELSE GCD(VecGCD(v, k - 1), v[k])

\* ------------------------------------------------------------------------
\* Terms  c * prod Primes[i]^(e[i]/d)  and finite reals (sets of terms)
\* ------------------------------------------------------------------------
\* canonical term of  c * prod Primes[i]^(v[i]/d): whole powers go to c
Term(c, v, d) ==
    LET whole == [i \in 1..NP |-> v[i] \div d]
        frac  == [i \in 1..NP |-> v[i] % d]
        g     == GCD(VecGCD(frac, NP), d)
    IN  [c |-> RatMul(c, VecProd(whole, NP)),
         e |-> [i \in 1..NP |-> frac[i] \div g],
         d |-> d \div g]

TermMul(a, b) ==
    Term(RatMul(a.c, b.c), [i \in 1..NP |-> a.e[i] * b.d + b.e[i] * a.d], a.d * b.d)

TermInv(a) == Term(RatInv(a.c), [i \in 1..NP |-> -a.e[i]], a.d)

RECURSIVE TermPow(_, _)
TermPow(a, k) == IF k = 0 THEN Term(RatInt(1), ZeroVec, 1) ELSE TermMul(a, TermPow(a, k - 1))

Radical(t) == <<t.e, t.d>>

RECURSIVE CoefSum(_)
CoefSum(T) ==
    IF T = {} THEN RatInt(0)
    ELSE LET t == CHOOSE x \in T : TRUE IN RatAdd(t.c, CoefSum(T \ {t}))

\* sum of two finite reals: coefficients of equal radicals add, zeros vanish
RealAdd(A, B) ==
    LET rads == {Radical(t) : t \in A \cup B}
        coef(r) == RatAdd(CoefSum({t \in A : Radical(t) = r}),
                          CoefSum({t \in B : Radical(t) = r}))
    IN  {[c |-> coef(r), e |-> r[1], d |-> r[2]] : r \in {q \in rads : coef(q)[1] # 0}}

RealScale(A, q) == IF q[1] = 0 THEN {} ELSE {[c |-> RatMul(t.c, q), e |-> t.e, d |-> t.d] : t \in A}

RealMulTerm(A, b) == {TermMul(t, b) : t \in A}

RealRat(q) == IF q[1] = 0 THEN {} ELSE {[c |-> q, e |-> ZeroVec, d |-> 1]}

\* ------------------------------------------------------------------------
\* IEEE doubles with numpy semantics: nan, +inf, -inf, or a finite real
\* ------------------------------------------------------------------------
NaN == [k |-> "nan", t |-> {}]
PosInf == [k |-> "pinf", t |-> {}]
NegInf == [k |-> "ninf", t |-> {}]
Fin(A) == [k |-> "fin", t |-> A]
Num(n) == Fin(RealRat(RatInt(n)))
Frac(n, d) == Fin(RealRat(Rat(n, d)))

IsNaN(x) == x.k = "nan"
IsFin(x) == x.k = "fin"
IsInf(x) == x.k \in {"pinf", "ninf"}
IsZero(x) == x.k = "fin" /\ x.t = {}
IsSingle(x) == x.k = "fin" /\ Cardinality(x.t) = 1
TheTerm(x) == CHOOSE t \in x.t : TRUE
\* sign of a special value, of zero, or of a one-term real
Sign(x) ==
    CASE x.k = "pinf" -> 1
      [] x.k = "ninf" -> -1
      [] x.k = "fin" /\ x.t = {} -> 0
      [] OTHER -> IF TheTerm(x).c[1] > 0 THEN 1 ELSE -1
Positive(x) == ~IsNaN(x) /\ (IsInf(x) \/ IsZero(x) \/ IsSingle(x)) /\ Sign(x) = 1

XAdd(x, y) ==
    CASE IsNaN(x) \/ IsNaN(y) -> NaN
      [] IsInf(x) /\ IsInf(y) -> IF x.k = y.k THEN x ELSE NaN
      [] IsInf(x) -> x
      [] IsInf(y) -> y
      [] OTHER -> Fin(RealAdd(x.t, y.t))

\* x * q for a rational q > 0
XScale(x, q) == IF IsFin(x) THEN Fin(RealScale(x.t, q)) ELSE x

XNeg(x) ==
    CASE x.k = "pinf" -> NegInf
      [] x.k = "ninf" -> PosInf
      [] x.k = "fin" -> Fin(RealScale(x.t, RatInt(-1)))
      [] OTHER -> NaN

XSub(x, y) == XAdd(x, XNeg(y))

\* x / y as numpy divides doubles; a finite divisor is zero or a single term
XDiv(x, y) ==
    CASE IsNaN(x) \/ IsNaN(y) -> NaN
      [] IsInf(x) /\ IsInf(y) -> NaN
      [] IsInf(x) -> IF Sign(x) * (IF Sign(y) < 0 THEN -1 ELSE 1) > 0 THEN PosInf ELSE NegInf
      [] IsInf(y) -> Num(0)
      [] IsZero(y) -> IF IsZero(x) THEN NaN
                      ELSE IF Sign(x) > 0 THEN PosInf ELSE NegInf
      [] OTHER -> Fin(RealMulTerm(x.t, TermInv(TheTerm(y))))

\* x * y for a single-term (or special) y
XMul(x, y) ==
    CASE IsNaN(x) \/ IsNaN(y) -> NaN
      [] IsInf(x) \/ IsInf(y) ->
            IF IsZero(x) \/ IsZero(y) THEN NaN
            ELSE IF Sign(x) * Sign(y) > 0 THEN PosInf ELSE NegInf
      [] IsZero(y) -> Num(0)
      [] OTHER -> Fin(RealMulTerm(x.t, TheTerm(y)))

\* ------------------------------------------------------------------------
\* Logarithms: log of a positive one-term real is its exponent vector
\* ------------------------------------------------------------------------
LNaN == [k |-> "nan", v |-> ZeroVec, d |-> 1]
LPosInf == [k |-> "pinf", v |-> ZeroVec, d |-> 1]
LNegInf == [k |-> "ninf", v |-> ZeroVec, d |-> 1]
LFin(v, d) ==
    LET g == GCD(VecGCD(v, NP), d)
    IN  [k |-> "fin", v |-> [i \in 1..NP |-> v[i] \div g], d |-> d \div g]

\* np.log
Log(x) ==
    CASE x.k = "nan" -> LNaN
      [] x.k = "pinf" -> LPosInf
      [] x.k = "ninf" -> LNaN
      [] IsZero(x) -> LNegInf
      [] Sign(x) < 0 -> LNaN
      [] OTHER ->
            LET t == TheTerm(x)
            IN  LFin([i \in 1..NP |->
                        (Valuation(t.c[1], Primes[i]) - Valuation(t.c[2], Primes[i])) * t.d
                        + t.e[i]], t.d)

LAdd(a, b) ==
    CASE a.k = "nan" \/ b.k = "nan" -> LNaN
      [] a.k # "fin" /\ b.k # "fin" -> IF a.k = b.k THEN a ELSE LNaN
      [] a.k # "fin" -> a
      [] b.k # "fin" -> b
      [] OTHER -> LFin([i \in 1..NP |-> a.v[i] * b.d + b.v[i] * a.d], a.d * b.d)

LDivInt(a, n) == IF a.k = "fin" THEN LFin(a.v, a.d * n) ELSE a

\* np.exp
Exp(a) ==
    CASE a.k = "nan" -> NaN
      [] a.k = "pinf" -> PosInf
      [] a.k = "ninf" -> Num(0)
      [] OTHER -> Fin({Term(RatInt(1), a.v, a.d)})

\* ------------------------------------------------------------------------
\* Tables (pandas DataFrame): the column names and the rows in order.
\* A row is a function from column name to cell.  Key cells are strings or
\* integers, metric cells are doubles (NaN is the missing value).
\* ------------------------------------------------------------------------
Table(cols, rows) == [cols |-> cols, rows |-> rows]
NoFile == [exists |-> FALSE, cols |-> {}, rows |-> <<>>]
File(cols, rows) == [exists |-> TRUE, cols |-> cols, rows |-> rows]
NoTable == Table({}, <<>>)

Range(s) == {s[i] : i \in DOMAIN s}

\* df[mask]: the rows satisfying Test, in order
Filter(rows, Test(_)) == SelectSeq(rows, Test)

\* Python's str ordering on the strings that occur as key cells
StrOrder == <<"-", "ALL", "DRAM", "L1", "L2", "L3", "LLC", "axpy", "dot", "f16", "f32", "f64",
              "rand", "read", "seq", "stencil", "write">>
StrRank(s) == CHOOSE i \in 1..Len(StrOrder) : StrOrder[i] = s
IntCols == {"n", "stride", "misalign", "verified", "tail_flag"}
CellLess(col, a, b) == IF col \in IntCols THEN a < b ELSE StrRank(a) < StrRank(b)

RECURSIVE TupleLess(_, _, _)
\* lexicographic order of the key tuples of the columns `by`, as sort_values and
\* groupby(sort=True) order them
TupleLess(a, b, by) ==
    IF a = <<>> THEN FALSE
    ELSE IF Head(a) = Head(b) THEN TupleLess(Tail(a), Tail(b), Tail(by))
    ELSE CellLess(Head(by), Head(a), Head(b))

RECURSIVE SortTuples(_, _)
SortTuples(S, by) ==
    IF S = {} THEN <<>>
    ELSE LET m == CHOOSE x \in S : \A y \in S \ {x} : TupleLess(x, y, by)
         IN  <<m>> \o SortTuples(S \ {m}, by)

KeyOf(r, by) == [i \in 1..Len(by) |-> r[by[i]]]

RECURSIVE Flatten(_)
Flatten(ss) == IF ss = <<>> THEN <<>> ELSE Head(ss) \o Flatten(Tail(ss))

\* Mutant of MergePairs: a cross join, the key columns are not compared
MergePairsCross(left, right, on) ==
    Flatten([i \in 1..Len(left) |-> [j \in 1..Len(right) |-> <<left[i], right[j]>>]])

\* pd.merge(left, right, on=on, how="inner"): every pair of rows with equal
\* key tuples, in the order of the left rows and then of the right rows
MergePairs(left, right, on) ==
    Flatten([i \in 1..Len(left) |->
        LET hits == Filter(right, LAMBDA q : KeyOf(q, on) = KeyOf(left[i], on))
        IN  [j \in 1..Len(hits) |-> <<left[i], hits[j]>>]])

\* ------------------------------------------------------------------------
\* Series reductions of pandas / numpy
\* ------------------------------------------------------------------------
\* Series.dropna()
dropna(s) == Filter(s, LAMBDA x : ~IsNaN(x))

\* Series.count(): the number of non-missing cells
count(s) == Len(dropna(s))

RECURSIVE XSum(_)
XSum(s) == IF s = <<>> THEN Num(0) ELSE XAdd(Head(s), XSum(Tail(s)))

RECURSIVE LSum(_)
LSum(s) == IF Len(s) = 1 THEN Head(s) ELSE LAdd(Head(s), LSum(Tail(s)))

\* np.mean(np.log(s)) of a non-empty series
MeanLog(s) == LDivInt(LSum([i \in 1..Len(s) |-> Log(s[i])]), Len(s))

\* Series.mean(): missing cells are skipped; NaN when nothing is left
mean(s) ==
    LET t == dropna(s)
    IN  IF t = <<>> THEN NaN ELSE XScale(XSum(t), Rat(1, Len(t)))

RECURSIVE ISum(_)
\* Series.sum() of an integer column (0 for the empty column)
ISum(s) == IF s = <<>> THEN 0 ELSE Head(s) + ISum(Tail(s))

Column(rows, c) == [i \in 1..Len(rows) |-> rows[i][c]]

\* ------------------------------------------------------------------------
\* make_align_report.py
\* ------------------------------------------------------------------------
AlignMetrics == <<"gflops", "cpe", "GiBps">>
key_cols == <<"kernel", "dtype", "stride", "n">>
GroupCols == <<"kernel", "dtype", "stride">>
AlignDeltaCols == <<"geo_mean_delta_gflops_%", "geo_mean_delta_cpe_%", "geo_mean_delta_gibps_%">>
expected == Range(GroupCols) \cup Range(AlignDeltaCols) \cup {"samples"}

\* str.lower() on the column names that occur
CaseVariants ==
    { <<"gibps", {"GiBps", "GIBPS"}>>, <<"kernel", {"Kernel"}>>, <<"dtype", {"DType"}>>,
      <<"n", {"N"}>>, <<"stride", {"Stride"}>>, <<"misalign", {"Misalign"}>>,
      <<"gflops", {"GFLOPS", "Gflops"}>>, <<"cpe", {"Cpe", "CPE"}>> }
Lower(c) ==
    IF \E v \in CaseVariants : c \in v[2]
    THEN (CHOOSE v \in CaseVariants : c \in v[2])[1]
    ELSE c

\* lines 17-21: a column whose lower-cased name is "gibps" is renamed "GiBps"
RenameGiBps(df) ==
    LET new(c) == IF Lower(c) = "gibps" THEN "GiBps" ELSE c
        old(c) == CHOOSE o \in df.cols : new(o) = c
        cols == {new(c) : c \in df.cols}
    IN  Table(cols, [i \in 1..Len(df.rows) |-> [c \in cols |-> df.rows[i][old(c)]]])

\* lines 24-25: keep verified == 1 when the column exists
KeepVerified(df) ==
    IF "verified" \in df.cols
    THEN Table(df.cols, Filter(df.rows, LAMBDA r : r["verified"] = 1))
    ELSE df

\* lines 28-29: df[df["misalign"] == v][key_cols + metrics]
BySide(df, v) ==
    LET cols == Range(key_cols) \cup Range(AlignMetrics)
        rows == Filter(df.rows, LAMBDA r : r["misalign"] = v)
    IN  [i \in 1..Len(rows) |-> [c \in cols |-> rows[i][c]]]

\* line 30 and lines 38-39: the inner join on key_cols, with the per-point
\* difference  metric_mi / metric_al - 1.0  of each metric
AlignMergedRow(al, mi) ==
    [c \in Range(key_cols) |-> al[c]]
    @@ [c \in {"gflops_al", "cpe_al", "GiBps_al"} |->
            CASE c = "gflops_al" -> al["gflops"] [] c = "cpe_al" -> al["cpe"]
              [] OTHER -> al["GiBps"]]
    @@ [c \in {"gflops_mi", "cpe_mi", "GiBps_mi"} |->
            CASE c = "gflops_mi" -> mi["gflops"] [] c = "cpe_mi" -> mi["cpe"]
              [] OTHER -> mi["GiBps"]]

AlignMerge(df) ==
    LET pairs == MergePairs(BySide(df, 0), BySide(df, 1), key_cols)
    IN  [i \in 1..Len(pairs) |-> AlignMergedRow(pairs[i][1], pairs[i][2])]

\* line 39
PointDelta(mi, al) == XSub(XDiv(mi, al), Num(1))

WithDeltas(rows) ==
    [i \in 1..Len(rows) |->
        rows[i] @@ [c \in {"delta_gflops", "delta_cpe", "delta_GiBps"} |->
            CASE c = "delta_gflops" -> PointDelta(rows[i]["gflops_mi"], rows[i]["gflops_al"])
              [] c = "delta_cpe" -> PointDelta(rows[i]["cpe_mi"], rows[i]["cpe_al"])
              [] OTHER -> PointDelta(rows[i]["GiBps_mi"], rows[i]["GiBps_al"])]]

\* Mutant of gmean: the plain mean of the per-sample relative changes
gmean_plain(series) == mean(series)

\* lines 42-46: exp(mean(log(1 + s))) - 1 over the non-missing cells
gmean(series) ==
    LET s == dropna(series)
    IN  IF s = <<>> THEN NaN
        ELSE XSub(Exp(MeanLog([i \in 1..Len(s) |-> XAdd(Num(1), s[i])])), Num(1))

\* the rows of a group, in order
GroupRows(rows, by, g) == Filter(rows, LAMBDA r : KeyOf(r, by) = g)
GroupKeysBy(rows, by) == SortTuples({KeyOf(rows[i], by) : i \in 1..Len(rows)}, by)

\* lines 48-59: one row per (kernel, dtype, stride), percentages
AlignGroupRow(rows, g) ==
    LET grp == GroupRows(rows, GroupCols, g)
    IN  [c \in Range(GroupCols) |-> grp[1][c]]
        @@ [c \in Range(AlignDeltaCols) |->
            CASE c = "geo_mean_delta_gflops_%" ->
                    XScale(gmean(Column(grp, "delta_gflops")), RatInt(100))
              [] c = "geo_mean_delta_cpe_%" ->
                    XScale(gmean(Column(grp, "delta_cpe")), RatInt(100))
              [] OTHER ->
                    XScale(gmean(Column(grp, "delta_GiBps")), RatInt(100))]
        @@ [c \in {"samples"} |-> count(Column(grp, "delta_gflops"))]

\* lines 31-61 of compute_summary_from_simd, from the merged frame on
AlignSummary(mrows) ==
    IF mrows = <<>> THEN Table(expected, <<>>)
    ELSE LET d == WithDeltas(mrows)
             keys == GroupKeysBy(d, GroupCols)
         IN  Table(expected, [i \in 1..Len(keys) |-> AlignGroupRow(d, keys[i])])

\* Mutant of append_overall_mean: the ALL row holds column sums
append_overall_sum(df, metric_cols) ==
    LET new_row == [c \in {"kernel", "dtype", "stride"} |->
                        CASE c = "kernel" -> "ALL" [] c = "dtype" -> "-" [] OTHER -> 0]
                   @@ [c \in Range(metric_cols) |-> XSum(dropna(Column(df.rows, c)))]
                   @@ [c \in {"samples"} |-> ISum(Column(df.rows, "samples"))]
    IN  Table(df.cols, df.rows \o <<new_row>>)

\* lines 63-74: the rows of df and one ALL row (means skip missing cells)
append_overall_mean(df, metric_cols) ==
    LET new_row == [c \in {"kernel", "dtype", "stride"} |->
                        CASE c = "kernel" -> "ALL" [] c = "dtype" -> "-" [] OTHER -> 0]
                   @@ [c \in Range(metric_cols) |-> mean(Column(df.rows, c))]
                   @@ [c \in {"samples"} |-> ISum(Column(df.rows, "samples"))]
    IN  Table(df.cols, df.rows \o <<new_row>>)

\* ------------------------------------------------------------------------
\* make_tail_report.py
\* ------------------------------------------------------------------------
\* argparse defaults of --f32_lanes and --f64_lanes
f32_lanes == 8
f64_lanes == 4

TailDeltaCols == <<"delta_gflops_%", "delta_cpe_%", "delta_gibps_%">>
TailFlagCols == <<"kernel", "dtype", "stride", "tail_flag">>
TailGeoCols == Range(TailFlagCols) \cup {"samples", "geo_gflops", "geo_cpe", "geo_gibps"}
TailOutCols == Range(GroupCols) \cup Range(TailDeltaCols) \cup {"samples_exact", "samples_tail"}

\* lines 28-33: exp(mean(log(s))) over the non-missing, strictly positive cells
geom_mean(series) ==
    LET s == Filter(dropna(series), Positive)
    IN  IF s = <<>> THEN NaN ELSE Exp(MeanLog(s))

\* (one vector width, that of f32, for every dtype)
load_and_flag_tail_one_width(file) ==
    LET df   == RenameGiBps(Table(file.cols, file.rows))
        kept == Filter(df.rows, LAMBDA r : r["verified"] = 1 /\ r["misalign"] = 0)
    IN  Table(df.cols \cup {"lanes", "tail_flag"},
              [i \in 1..Len(kept) |->
                  kept[i] @@ [c \in {"lanes", "tail_flag"} |->
                      IF c = "lanes" THEN f32_lanes
                      ELSE IF kept[i]["n"] % f32_lanes # 0 THEN 1 ELSE 0]])

\* lines 39-48 after read_csv: rename, keep verified = 1 and misalign = 0,
\* lanes by dtype, tail_flag = (n % lanes != 0)
load_and_flag_tail(file) ==
    LET df   == RenameGiBps(Table(file.cols, file.rows))
        kept == Filter(df.rows, LAMBDA r : r["verified"] = 1 /\ r["misalign"] = 0)
        lanes(r) == IF r["dtype"] = "f32" THEN f32_lanes ELSE f64_lanes
    IN  Table(df.cols \cup {"lanes", "tail_flag"},
              [i \in 1..Len(kept) |->
                  kept[i] @@ [c \in {"lanes", "tail_flag"} |->
                      IF c = "lanes" THEN lanes(kept[i])
                      ELSE IF kept[i]["n"] % lanes(kept[i]) # 0 THEN 1 ELSE 0]])

TailGeoRow(rows, g) ==
    LET grp == GroupRows(rows, TailFlagCols, g)
    IN  [c \in Range(TailFlagCols) |-> grp[1][c]]
        @@ [c \in {"samples"} |-> count(Column(grp, "gflops"))]
        @@ [c \in {"geo_gflops", "geo_cpe", "geo_gibps"} |->
            CASE c = "geo_gflops" -> geom_mean(Column(grp, "gflops"))
              [] c = "geo_cpe" -> geom_mean(Column(grp, "cpe"))
              [] OTHER -> geom_mean(Column(grp, "GiBps"))]

\* lines 53-59
build_tail_flag_geo(df) ==
    LET keys == GroupKeysBy(df.rows, TailFlagCols)
    IN  Table(TailGeoCols, [i \in 1..Len(keys) |-> TailGeoRow(df.rows, keys[i])])

\* lines 65-67: exact x tail on (kernel, dtype, stride), suffixes _exact/_tail
TailMergedRow(e, t) ==
    [c \in Range(GroupCols) |-> e[c]]
    @@ [c \in {"samples_exact", "geo_gflops_exact", "geo_cpe_exact", "geo_gibps_exact"} |->
            CASE c = "samples_exact" -> e["samples"] [] c = "geo_gflops_exact" -> e["geo_gflops"]
              [] c = "geo_cpe_exact" -> e["geo_cpe"] [] OTHER -> e["geo_gibps"]]
    @@ [c \in {"samples_tail", "geo_gflops_tail", "geo_cpe_tail", "geo_gibps_tail"} |->
            CASE c = "samples_tail" -> t["samples"] [] c = "geo_gflops_tail" -> t["geo_gflops"]
              [] c = "geo_cpe_tail" -> t["geo_cpe"] [] OTHER -> t["geo_gibps"]]

TailMerge(geo) ==
    LET exact == Filter(geo.rows, LAMBDA r : r["tail_flag"] = 0)
        tail  == Filter(geo.rows, LAMBDA r : r["tail_flag"] = 1)
        pairs == MergePairs(exact, tail, GroupCols)
    IN  [i \in 1..Len(pairs) |-> TailMergedRow(pairs[i][1], pairs[i][2])]

\* Mutant of TailDelta: baseline and treatment swapped
TailDeltaSwapped(t, e) == XScale(XSub(XDiv(e, t), Num(1)), RatInt(100))

\* lines 70-72: (geo_tail / geo_exact - 1) * 100
TailDelta(t, e) == XScale(XSub(XDiv(t, e), Num(1)), RatInt(100))

\* lines 68-73
build_tail_delta_summary(m) ==
    IF m = <<>> THEN NoTable
    ELSE Table(TailOutCols,
            [i \in 1..Len(m) |->
                [c \in Range(GroupCols) \cup {"samples_exact", "samples_tail"} |-> m[i][c]]
                @@ [c \in Range(TailDeltaCols) |->
                    CASE c = "delta_gflops_%" -> TailDelta(m[i]["geo_gflops_tail"], m[i]["geo_gflops_exact"])
                      [] c = "delta_cpe_%" -> TailDelta(m[i]["geo_cpe_tail"], m[i]["geo_cpe_exact"])
                      [] OTHER -> TailDelta(m[i]["geo_gibps_tail"], m[i]["geo_gibps_exact"])]])

\* Mutant of tail_append_overall_mean: the ALL row is put first
tail_append_overall_first(df) ==
    LET new_row == [c \in {"kernel", "dtype", "stride"} |->
                        CASE c = "kernel" -> "ALL" [] c = "dtype" -> "-" [] OTHER -> 0]
                   @@ [c \in Range(TailDeltaCols) |-> mean(Column(df.rows, c))]
                   @@ [c \in {"samples_exact", "samples_tail"} |-> ISum(Column(df.rows, c))]
    IN  Table(df.cols, <<new_row>> \o df.rows)

\* lines 78-83 (make_tail_report's append_overall_mean), on a frame that has
\* the columns it reads
tail_append_overall_mean(df) ==
    LET new_row == [c \in {"kernel", "dtype", "stride"} |->
                        CASE c = "kernel" -> "ALL" [] c = "dtype" -> "-" [] OTHER -> 0]
                   @@ [c \in Range(TailDeltaCols) |-> mean(Column(df.rows, c))]
                   @@ [c \in {"samples_exact", "samples_tail"} |-> ISum(Column(df.rows, c))]
    IN  Table(df.cols, df.rows \o <<new_row>>)

\* ------------------------------------------------------------------------
\* make_dtype_report.py
\* ------------------------------------------------------------------------
\* lines 30-38: the first candidate that names a column, exactly or ignoring
\* letter case; NoCol stands for None
NoCol == "<None>"
RECURSIVE pick_col(_, _)
pick_col(cols, names) ==
    IF names = <<>> THEN NoCol
    ELSE IF Head(names) \in cols THEN Head(names)
    ELSE IF \E c \in cols : Lower(c) = Lower(Head(names))
         THEN CHOOSE c \in cols : Lower(c) = Lower(Head(names))
    ELSE pick_col(cols, Tail(names))

\* Mutant of geomean: missing cells are dropped, non-positive ones are kept
geomean_nofilter(series) ==
    LET s == dropna(series)
    IN  IF Len(s) = 0 THEN NaN ELSE Exp(MeanLog(s))

\* lines 40-46: exp(mean(log(s))) over the non-missing, strictly positive cells
geomean(series) ==
    LET s == Filter(dropna(series), Positive)
    IN  IF Len(s) = 0 THEN NaN ELSE Exp(MeanLog(s))

\* lines 48-60: historical metric column names are renamed
load_csv(file) ==
    LET new(c) == CASE c \in {"simd_or_scalar", "Version"} -> "version"
                    [] c \in {"gflops_per_s", "Gflops"} -> "gflops"
                    [] c \in {"cycles_per_element", "CPE"} -> "cpe"
                    [] OTHER -> c
        cols == {new(c) : c \in file.cols}
        old(c) == CHOOSE o \in file.cols : new(o) = c
    IN  Table(cols, [i \in 1..Len(file.rows) |-> [c \in cols |-> file.rows[i][old(c)]]])

\* a cell of a numeric column that does not parse as a number
Unparsed == [k |-> "str", t |-> {}]
\* pd.to_numeric(errors="coerce")
to_numeric(x) == IF x = Unparsed THEN NaN ELSE x

\* lines 62-71
normalize(t) ==
    Table(t.cols, [i \in 1..Len(t.rows) |->
        [c \in t.cols |-> IF c \in {"gflops", "cpe"} THEN to_numeric(t.rows[i][c])
                          ELSE t.rows[i][c]]])

\* (the thresholds taken as exclusive)
region_by_n_strict(n) ==
    IF n < 8192 THEN "L1"
    ELSE IF n < 131072 THEN "L2"
    ELSE IF n < 4194304 THEN "LLC"
    ELSE "DRAM"

\* lines 73-78
region_by_n(n) ==
    IF n <= 8192 THEN "L1"
    ELSE IF n <= 131072 THEN "L2"
    ELSE IF n <= 4194304 THEN "LLC"
    ELSE "DRAM"

DtypeNeeded == <<"kernel", "dtype", "n", "stride", "misalign", "gflops", "cpe">>
DtypeGeoCols == {"gmean_speedup", "gmean_gflops_simd", "gmean_gflops_scalar",
                 "gmean_cpe_simd", "gmean_cpe_scalar"}

\* lines 105-114: simd x scalar on [K, D, N, S, M], speedup and region
DtypeMergedRow(h, sm, sc) ==
    [c \in {h["kernel"], h["dtype"], h["n"], h["stride"], h["misalign"]} |-> sm[c]]
    @@ [c \in {"gflops_simd", "cpe_simd", "gflops_scalar", "cpe_scalar", "speedup"} |->
            CASE c = "gflops_simd" -> sm[h["gflops"]] [] c = "cpe_simd" -> sm[h["cpe"]]
              [] c = "gflops_scalar" -> sc[h["gflops"]] [] c = "cpe_scalar" -> sc[h["cpe"]]
              [] OTHER -> XDiv(sm[h["gflops"]], sc[h["gflops"]])]
    @@ [c \in {"region"} |-> region_by_n(sm[h["n"]])]

DtypeMerge(h, simd, sc) ==
    LET key == <<h["kernel"], h["dtype"], h["n"], h["stride"], h["misalign"]>>
        pairs == MergePairs(simd.rows, sc.rows, key)
    IN  [i \in 1..Len(pairs) |-> DtypeMergedRow(h, pairs[i][1], pairs[i][2])]

\* one row of a groupby(by).agg(...) of lines 120-137 and 143-154
DtypeAggRow(rows, by, g) ==
    LET grp == GroupRows(rows, by, g)
    IN  [c \in Range(by) |-> grp[1][c]]
        @@ [c \in DtypeGeoCols |->
            CASE c = "gmean_speedup" -> geomean(Column(grp, "speedup"))
              [] c = "gmean_gflops_simd" -> geomean(Column(grp, "gflops_simd"))
              [] c = "gmean_gflops_scalar" -> geomean(Column(grp, "gflops_scalar"))
              [] c = "gmean_cpe_simd" -> geomean(Column(grp, "cpe_simd"))
              [] OTHER -> geomean(Column(grp, "cpe_scalar"))]
        @@ [c \in {"samples"} |-> count(Column(grp, "speedup"))]

DtypeAgg(rows, by) ==
    LET keys == GroupKeysBy(rows, by)
    IN  [i \in 1..Len(keys) |-> DtypeAggRow(rows, by, keys[i])]

WithCell(rows, col, v) == [i \in 1..Len(rows) |-> rows[i] @@ [c \in {col} |-> v]]

\* lines 120-158: agg, agg_overall (region = "ALL"), the stride = 1 view and
\* their concatenation summary_out; "" stands for the missing note
DtypeSummaryOut(h, rows) ==
    LET D == h["dtype"]
        K == h["kernel"]
        agg == DtypeAgg(rows, <<D, K, "region">>)
        agg_overall == WithCell(DtypeAgg(rows, <<D, K>>), "region", "ALL")
        summary_s1 == DtypeAgg(Filter(rows, LAMBDA r : r[h["stride"]] = 1), <<D, K, "region">>)
    IN  Table({D, K, "region", "samples", "note"} \cup DtypeGeoCols,
              WithCell(agg \o agg_overall, "note", "")
              \o WithCell(summary_s1, "note", "stride=1 only"))

\* ------------------------------------------------------------------------
\* State of one run
\* ------------------------------------------------------------------------
VARIABLES
    script,       \* the script (or the function under test) that runs
    pc,           \* position in the script
    simd_csv,     \* data/simd.csv
    scalar_csv,   \* data/scalar.csv
    summary_csv,  \* data/aln_vs_mis_summary.csv
    csv,          \* the CSV named on the command line of a Project2 Cache script
    args,         \* the other command-line arguments of the run
    df,           \* the loaded and filtered frame
    scalar,       \* the normalized frame of data/scalar.csv
    handles,      \* the column handles K, D, N, ...; in plot_sec5 the knee text; in plot.py
                  \* the loop variables; in parse_loaded the lines of the MLC output
    merged,       \* the rows of the inner join; in parse_loaded the pairs
    geo,          \* a second derived table (make_tail_report: per tail_flag aggregates)
    summary,      \* the per-group table handed to the summary appender
    final,        \* the table returned by the summary appender
    calls,        \* number of calls of the summary appender
    out,          \* the files written, with the table each holds
    err,          \* the exception that ended the run (class, names in its message)
    series,       \* the argument of a function under test (a column, a token list); in
                  \* parse_loaded the text of raw_file
    reduced       \* named results: of the functions under test, B_mem and P_peak

inputs == <<script, simd_csv, scalar_csv, summary_csv, csv, args>>
vars == <<script, pc, simd_csv, scalar_csv, summary_csv, csv, args, df, scalar, handles, merged, geo,
          summary, final, calls, out, err, series, reduced>>
run == <<script, pc, simd_csv, scalar_csv, summary_csv, csv, args, df, scalar, handles, merged, geo,
         summary, final, calls, out, err>>

\* ------------------------------------------------------------------------
\* Bounded inputs
\* ------------------------------------------------------------------------
MaxSimdRows == 3
MaxSummaryRows == 3

SimdCols == {"kernel", "dtype", "n", "stride", "misalign", "verified", "gflops", "cpe", "GiBps"}

KeyA == <<"axpy", "f32", 1>>
KeyB == <<"dot", "f64", 2>>
KeyC == <<"dot", "f32", 1>>

\* metric profiles <<gflops, cpe, GiBps>> of a sample
P1 == <<Num(1), Num(1), Num(1)>>
P2 == <<Num(2), Num(4), Num(8)>>
PZero == <<Num(0), Num(1), Num(1)>>
PNull == <<NaN, Num(2), Num(1)>>
PNeg == <<Num(-1), Num(1), Num(0)>>

SimdRow(key, n, mis, ver, prof, bw) ==
    [c \in (SimdCols \ {"GiBps"}) \cup {bw} |->
        CASE c = "kernel" -> key[1] [] c = "dtype" -> key[2] [] c = "stride" -> key[3]
          [] c = "n" -> n [] c = "misalign" -> mis [] c = "verified" -> ver
          [] c = "gflops" -> prof[1] [] c = "cpe" -> prof[2] [] OTHER -> prof[3]]

SimdUniverseSet ==
    {SimdRow(KeyA, 8, 0, 1, p, "GiBps") : p \in {P1, P2, PZero, PNull}}
    \cup {SimdRow(KeyA, 8, 1, 1, p, "GiBps") : p \in {P1, P2, PZero, PNeg}}
    \cup {SimdRow(KeyA, 9, m, 1, p, "GiBps") : m \in {0, 1}, p \in {P1, P2}}
    \cup {SimdRow(KeyB, 8, m, 1, p, "GiBps") : m \in {0, 1}, p \in {P1, P2}}
    \cup {SimdRow(KeyA, 8, 0, 0, P2, "GiBps")}

RECURSIVE SetToSeq(_)
SetToSeq(S) ==
    IF S = {} THEN <<>>
    ELSE LET x == CHOOSE y \in S : TRUE IN <<x>> \o SetToSeq(S \ {x})

SimdUniverse == SetToSeq(SimdUniverseSet)

\* index sequences of length <= max over 1..n, non-decreasing (the row order of
\* these inputs is fixed; the generators sort their groups)
Picks(n, max) ==
    UNION {{s \in [1..k -> 1..n] : \A i \in 1..(k - 1) : s[i] <= s[i + 1]} : k \in 0..max}

SimdTables ==
    {File(SimdCols, [i \in 1..Len(s) |-> SimdUniverse[s[i]]]) :
        s \in Picks(Len(SimdUniverse), MaxSimdRows)}

\* numbers of samples per side in the end-to-end scenario (three, or fewer)
ScenarioReps == {1, 2, 3}
\* the end-to-end scenario: i baseline samples of 10.0 and j treatment samples
\* of 9.0 under (dot, f32, stride = 1); the bandwidth column is named "gibps"
P10 == <<Num(10), Num(10), Num(10)>>
P9 == <<Num(9), Num(9), Num(9)>>
Repeat(x, k) == [i \in 1..k |-> x]
ScenarioCols == (SimdCols \ {"GiBps"}) \cup {"gibps"}
ScenarioTables(scr) ==
    {File(ScenarioCols,
          Repeat(SimdRow(KeyC, 8, 0, 1, P10, "gibps"), i)
          \o Repeat(IF scr = "align" THEN SimdRow(KeyC, 8, 1, 1, P9, "gibps")
                    ELSE SimdRow(KeyC, 9, 0, 1, P9, "gibps"), j)) :
        i \in ScenarioReps, j \in ScenarioReps}

\* rows of a pre-existing data/aln_vs_mis_summary.csv
SummaryRow(key, g, c, b, n) ==
    [col \in expected |->
        CASE col = "kernel" -> key[1] [] col = "dtype" -> key[2] [] col = "stride" -> key[3]
          [] col = "geo_mean_delta_gflops_%" -> g [] col = "geo_mean_delta_cpe_%" -> c
          [] col = "geo_mean_delta_gibps_%" -> b [] OTHER -> n]

SummaryUniverse ==
    << SummaryRow(KeyA, Num(10), Num(0), Num(10), 4),
       SummaryRow(KeyB, Num(-10), NaN, Num(-10), 4),
       SummaryRow(KeyC, Num(5), Num(1), Frac(5, 2), 2),
       SummaryRow(KeyA, NaN, NaN, Num(1), 2) >>

SummaryTables ==
    {File(expected, [i \in 1..Len(s) |-> SummaryUniverse[s[i]]]) :
        s \in UNION {[1..k -> 1..Len(SummaryUniverse)] : k \in 0..MaxSummaryRows}}

\* rows of data/scalar.csv and data/simd.csv for make_dtype_report
MaxDtypeRows == 2
DtypeCols == Range(DtypeNeeded)
DtypeRow(key, n, mis, g, c) ==
    [col \in DtypeCols |->
        CASE col = "kernel" -> key[1] [] col = "dtype" -> key[2] [] col = "stride" -> key[3]
          [] col = "n" -> n [] col = "misalign" -> mis
          [] col = "gflops" -> g [] OTHER -> c]

DtypeUniverse ==
    << DtypeRow(KeyC, 8, 0, Num(1), Num(2)),
       DtypeRow(KeyC, 8, 0, Num(4), Unparsed),
       DtypeRow(KeyC, 8, 0, Num(0), Num(1)),
       DtypeRow(KeyB, 16384, 0, Num(2), Num(1)),
       DtypeRow(KeyA, 8, 1, NaN, Num(1)) >>

DtypeTables ==
    {File(DtypeCols, [i \in 1..Len(s) |-> DtypeUniverse[s[i]]]) :
        s \in Picks(Len(DtypeUniverse), MaxDtypeRows)}

\* ------------------------------------------------------------------------
\* Initial states: a script and the input files it finds
\* ------------------------------------------------------------------------
\* an exception: its class and the column and file names its message holds
Error(type, names) == [type |-> type, names |-> names]
NoError == Error("none", {})
\* the first name of the list that is not a column
RECURSIVE FirstMissing(_, _)
FirstMissing(names, cols) ==
    IF Head(names) \notin cols THEN Head(names) ELSE FirstMissing(Tail(names), cols)
\* KeyError of df[c] for the first absent c; KeyError of df[[...]] lists all absent
KeyError1(names, cols) == Error("KeyError", {FirstMissing(names, cols)})
KeyErrorAll(names, cols) == Error("KeyError", names \ cols)

Fresh ==
    /\ pc = "start"
    /\ df = NoTable /\ scalar = NoTable /\ handles = <<>>
    /\ merged = <<>> /\ geo = NoTable
    /\ summary = NoTable /\ final = NoTable
    /\ calls = 0 /\ out = {} /\ err = NoError

InitAlign ==
    /\ script = "align" /\ scalar_csv = NoFile
    /\ \/ summary_csv = NoFile /\ simd_csv \in SimdTables \cup ScenarioTables("align") \cup {NoFile}
       \/ summary_csv \in SummaryTables /\ simd_csv \in {NoFile, File(SimdCols, <<>>)}

InitTail ==
    /\ script = "tail" /\ scalar_csv = NoFile /\ summary_csv = NoFile
    /\ simd_csv \in SimdTables \cup ScenarioTables("tail") \cup {NoFile}

\* ------------------------------------------------------------------------
\* make_align_report.main
\* ------------------------------------------------------------------------
Fail(e) == pc' = "failed" /\ err' = e

\* (the opposite preference: data/simd.csv first, the summary as fallback)
AlignReadSimdFirst ==
    /\ script = "align" /\ pc = "start"
    /\ IF simd_csv.exists
       THEN summary' = summary /\ pc' = "load" /\ err' = err
       ELSE IF summary_csv.exists
       THEN /\ summary' = Table(summary_csv.cols, summary_csv.rows)
            /\ pc' = "select" /\ err' = err
       ELSE /\ summary' = summary
            /\ Fail(Error("FileNotFoundError",
                          {"data/simd.csv", "data/aln_vs_mis_summary.csv"}))
    /\ UNCHANGED <<series, reduced, inputs, scalar, handles, df, merged, geo, final, calls, out>>

\* lines 80-86: the summary file is preferred; simd.csv is the fallback
AlignRead ==
    /\ script = "align" /\ pc = "start"
    /\ IF summary_csv.exists
       THEN /\ summary' = Table(summary_csv.cols, summary_csv.rows)
            /\ pc' = "select" /\ err' = err
       ELSE /\ summary' = summary
            /\ IF simd_csv.exists THEN pc' = "load" /\ err' = err
               ELSE Fail(Error("FileNotFoundError",
                               {"data/simd.csv", "data/aln_vs_mis_summary.csv"}))
    /\ UNCHANGED <<series, reduced, inputs, scalar, handles, df, merged, geo, final, calls, out>>

\* compute_summary_from_simd, lines 14-25
AlignLoad ==
    /\ script = "align" /\ pc = "load"
    /\ df' = KeepVerified(RenameGiBps(Table(simd_csv.cols, simd_csv.rows)))
    /\ pc' = "join"
    /\ UNCHANGED <<series, reduced, inputs, scalar, handles, merged, geo, summary, final, calls, out, err>>

\* compute_summary_from_simd, lines 27-39
AlignJoin ==
    /\ script = "align" /\ pc = "join"
    /\ IF (Range(key_cols) \cup Range(AlignMetrics) \cup {"misalign"}) \subseteq df.cols
       THEN merged' = WithDeltas(AlignMerge(df)) /\ pc' = "group" /\ err' = err
       ELSE /\ merged' = merged
            /\ Fail(IF "misalign" \notin df.cols THEN KeyError1(<<"misalign">>, df.cols)
                    ELSE KeyErrorAll(Range(key_cols) \cup Range(AlignMetrics), df.cols))
    /\ UNCHANGED <<series, reduced, inputs, scalar, handles, df, geo, summary, final, calls, out>>

\* compute_summary_from_simd, lines 31-35 and 41-61, returning to main line 87
AlignGroup ==
    /\ script = "align" /\ pc = "group"
    /\ summary' = AlignSummary(merged)
    /\ pc' = "select"
    /\ UNCHANGED <<series, reduced, inputs, scalar, handles, df, merged, geo, final, calls, out, err>>

\* main, lines 89-90: df = df[expected].copy()
AlignSelect ==
    /\ script = "align" /\ pc = "select"
    /\ IF expected \subseteq summary.cols
       THEN /\ summary' = Table(expected, [i \in 1..Len(summary.rows) |->
                                              [c \in expected |-> summary.rows[i][c]]])
            /\ pc' = "append" /\ err' = err
       ELSE summary' = summary /\ Fail(KeyErrorAll(expected, summary.cols))
    /\ UNCHANGED <<series, reduced, inputs, scalar, handles, df, merged, geo, final, calls, out>>

\* main, line 91
AlignAppend ==
    /\ script = "align" /\ pc = "append"
    /\ final' = append_overall_mean(summary, AlignDeltaCols)
    /\ calls' = calls + 1
    /\ pc' = "write"
    /\ UNCHANGED <<series, reduced, inputs, scalar, handles, df, merged, geo, summary, out, err>>

\* main, lines 93-122: the Markdown table and the three bar charts
AlignWrite ==
    /\ script = "align" /\ pc = "write"
    /\ out' = {[file |-> f, table |-> final] :
                 f \in {"plots/align/aln_vs_mis_summary.md",
                        "plots/align/aln_vs_mis_delta_gflops.png",
                        "plots/align/aln_vs_mis_delta_cpe.png",
                        "plots/align/aln_vs_mis_delta_gibps.png"}}
    /\ pc' = "done"
    /\ UNCHANGED <<series, reduced, inputs, scalar, handles, df, merged, geo, summary, final, calls, err>>

\* ------------------------------------------------------------------------
\* make_tail_report.main
\* ------------------------------------------------------------------------
\* line 128: load_and_flag_tail
TailLoad ==
    /\ script = "tail" /\ pc = "start"
    /\ IF ~simd_csv.exists THEN df' = df /\ Fail(Error("FileNotFoundError", {"data/simd.csv"}))
       ELSE IF ~({"verified", "misalign", "dtype", "n"} \subseteq simd_csv.cols)
       THEN df' = df /\ Fail(KeyError1(<<"verified", "misalign", "dtype", "n">>, simd_csv.cols))
       ELSE df' = load_and_flag_tail(simd_csv) /\ pc' = "geo" /\ err' = err
    /\ UNCHANGED <<series, reduced, inputs, scalar, handles, merged, geo, summary, final, calls, out>>

\* line 129: build_tail_flag_geo
TailGeo ==
    /\ script = "tail" /\ pc = "geo"
    /\ IF (Range(GroupCols) \cup Range(AlignMetrics)) \subseteq df.cols
       THEN geo' = build_tail_flag_geo(df) /\ pc' = "delta" /\ err' = err
       ELSE /\ geo' = geo
            /\ Fail(IF Range(GroupCols) \subseteq df.cols
                    THEN KeyErrorAll(Range(AlignMetrics), df.cols)
                    ELSE KeyError1(GroupCols, df.cols))
    /\ UNCHANGED <<series, reduced, inputs, scalar, handles, df, merged, summary, final, calls, out>>

\* line 130: build_tail_delta_summary
TailDeltaSummary ==
    /\ script = "tail" /\ pc = "delta"
    /\ merged' = TailMerge(geo)
    /\ summary' = build_tail_delta_summary(merged')
    /\ pc' = "append"
    /\ UNCHANGED <<series, reduced, inputs, scalar, handles, df, geo, final, calls, out, err>>

\* line 131: append_overall_mean; df[c] of a frame without the column raises
TailAppend ==
    /\ script = "tail" /\ pc = "append"
    /\ calls' = calls + 1
    /\ IF TailOutCols \subseteq summary.cols
       THEN final' = tail_append_overall_mean(summary) /\ pc' = "save" /\ err' = err
       ELSE final' = final /\ Fail(KeyError1(TailDeltaCols, summary.cols))
    /\ UNCHANGED <<series, reduced, inputs, scalar, handles, df, merged, geo, summary, out>>

\* lines 134-141: the CSV, the Markdown table and the three bar charts
TailSave ==
    /\ script = "tail" /\ pc = "save"
    /\ out' = {[file |-> f, table |-> final] :
                 f \in {"data/tail_delta_summary.csv",
                        "plots/tail/tail_delta_summary.md",
                        "plots/tail/tail_delta_gflops_%.png",
                        "plots/tail/tail_delta_cpe_%.png",
                        "plots/tail/tail_delta_gibps_%.png"}}
    /\ pc' = "done"
    /\ UNCHANGED <<series, reduced, inputs, scalar, handles, df, merged, geo, summary, final, calls, err>>

InitDtype ==
    /\ script = "dtype" /\ summary_csv = NoFile
    /\ simd_csv \in DtypeTables /\ scalar_csv \in DtypeTables

\* ------------------------------------------------------------------------
\* make_dtype_report (module level)
\* ------------------------------------------------------------------------
\* lines 83-100: load and normalize both files, validate the required columns,
\* take the column handles from the scalar frame
DtypeLoad ==
    /\ script = "dtype" /\ pc = "start"
    /\ IF ~scalar_csv.exists \/ ~simd_csv.exists
       THEN /\ UNCHANGED <<df, scalar, handles>>
            /\ Fail(Error("FileNotFoundError",
                          {IF ~scalar_csv.exists THEN "data/scalar.csv" ELSE "data/simd.csv"}))
       ELSE LET sc == normalize(load_csv(scalar_csv))
                sm == normalize(load_csv(simd_csv))
            IN  /\ scalar' = sc /\ df' = sm
                /\ IF \E i \in 1..Len(DtypeNeeded) :
                          \/ pick_col(sc.cols, <<DtypeNeeded[i]>>) = NoCol
                          \/ pick_col(sm.cols, <<DtypeNeeded[i]>>) = NoCol
                   THEN LET i == CHOOSE j \in 1..Len(DtypeNeeded) :
                                   /\ \/ pick_col(sc.cols, <<DtypeNeeded[j]>>) = NoCol
                                      \/ pick_col(sm.cols, <<DtypeNeeded[j]>>) = NoCol
                                   /\ \A k \in 1..(j - 1) :
                                         /\ pick_col(sc.cols, <<DtypeNeeded[k]>>) # NoCol
                                         /\ pick_col(sm.cols, <<DtypeNeeded[k]>>) # NoCol
                        IN  /\ handles' = handles
                            /\ Fail(Error("SystemExit",
                                   {DtypeNeeded[i],
                                    IF pick_col(sc.cols, <<DtypeNeeded[i]>>) = NoCol
                                    THEN "data/scalar.csv" ELSE "data/simd.csv"}))
                   ELSE /\ handles' = [c \in Range(DtypeNeeded) |-> pick_col(sc.cols, <<c>>)]
                        /\ pc' = "merge" /\ err' = err
    /\ UNCHANGED <<series, reduced, inputs, merged, geo, summary, final, calls, out>>

\* lines 105-114
DtypeJoin ==
    /\ script = "dtype" /\ pc = "merge"
    /\ IF {handles[c] : c \in Range(DtypeNeeded)} \subseteq df.cols
       THEN merged' = DtypeMerge(handles, df, scalar) /\ pc' = "agg" /\ err' = err
       ELSE /\ merged' = merged
            /\ Fail(KeyErrorAll({handles[c] : c \in Range(DtypeNeeded)}, df.cols))
    /\ UNCHANGED <<series, reduced, inputs, df, scalar, handles, geo, summary, final, calls, out>>

\* lines 120-160: the aggregations and data/dtype_summary.csv
DtypeAggregate ==
    /\ script = "dtype" /\ pc = "agg"
    /\ summary' = DtypeSummaryOut(handles, merged)
    /\ out' = {[file |-> "data/dtype_summary.csv", table |-> summary']}
    /\ pc' = "report"
    /\ UNCHANGED <<series, reduced, inputs, df, scalar, handles, merged, geo, final, calls, err>>

\* lines 165-300: the figures and plots/dtype/dtype_summary.md
DtypeReport ==
    /\ script = "dtype" /\ pc = "report"
    /\ out' = out \cup {[file |-> "plots/dtype/dtype_summary.md", table |-> summary]}
    /\ pc' = "done"
    /\ UNCHANGED <<series, reduced, inputs, df, scalar, handles, merged, geo, summary, final, calls, err>>

NoSeries == series = <<>> /\ reduced = <<>>
\* the SIMD generators of this specification take no file or option on the
\* command line (the argparse defaults are used)
NoArgs == <<>>
DefaultArgs == csv = NoFile /\ args = NoArgs

Init == Fresh /\ NoSeries /\ DefaultArgs /\ (InitAlign \/ InitTail \/ InitDtype)

Next ==
    \/ AlignRead \/ AlignLoad \/ AlignJoin \/ AlignGroup \/ AlignSelect
    \/ AlignAppend \/ AlignWrite
    \/ TailLoad \/ TailGeo \/ TailDeltaSummary \/ TailAppend \/ TailSave
    \/ DtypeLoad \/ DtypeJoin \/ DtypeAggregate \/ DtypeReport

Spec == Init /\ [][Next]_vars

\* ------------------------------------------------------------------------
\* The geometric-mean reducers on their own: a column of up to MaxLen cells
\* ------------------------------------------------------------------------
MaxLen == 3
GeoCells == {NaN, Num(-1), Num(0), Num(1), Num(2), Num(8)}

InitGeo ==
    /\ series \in UNION {[1..k -> GeoCells] : k \in 0..MaxLen}
    /\ reduced = <<>>
    /\ script = "reducers" /\ simd_csv = NoFile /\ scalar_csv = NoFile /\ summary_csv = NoFile
    /\ csv = NoFile /\ args = <<>>
    /\ Fresh

\* make_dtype_report.geomean applied to the column
ApplyGeomean ==
    /\ script = "reducers" /\ "geomean" \notin DOMAIN reduced
    /\ reduced' = reduced @@ [f \in {"geomean"} |-> geomean(series)]
    /\ UNCHANGED <<series, run>>

\* make_tail_report.geom_mean applied to the column
ApplyGeomMean ==
    /\ script = "reducers" /\ "geom_mean" \notin DOMAIN reduced
    /\ reduced' = reduced @@ [f \in {"geom_mean"} |-> geom_mean(series)]
    /\ UNCHANGED <<series, run>>

NextGeo == ApplyGeomean \/ ApplyGeomMean

SpecGeo == InitGeo /\ [][NextGeo]_vars

\* ------------------------------------------------------------------------
\* Project2 Cache/results: the section scripts (module level, one run each)
\* ------------------------------------------------------------------------
\* products and integer powers of doubles
RECURSIVE XProd(_)
XProd(s) == IF s = <<>> THEN Num(1) ELSE XMul(XProd(Tail(s)), Head(s))

RECURSIVE XPow(_, _)
XPow(x, k) == IF k = 0 THEN Num(1) ELSE XMul(XPow(x, k - 1), x)

\* np.sqrt of a non-negative one-term real
Sqrt(x) == IF IsNaN(x) \/ IsZero(x) THEN x ELSE Exp(LDivInt(Log(x), 2))

\* Series.std(): the sample standard deviation (ddof = 1) of the non-missing
\* cells, NaN when fewer than two are left
std(s) ==
    LET t == dropna(s)
        m == mean(t)
        dev(i) == XSub(t[i], m)
    IN  IF Len(t) < 2 THEN NaN
        ELSE Sqrt(XScale(XSum([i \in 1..Len(t) |-> XMul(dev(i), dev(i))]),
                         Rat(1, Len(t) - 1)))

\* Series.fillna(0)
fillna0(x) == IF IsNaN(x) THEN Num(0) ELSE x

\* A float as the Markdown writers print it: "nan" for a missing value, else
\* the decimal numeral of the value with the given number of fractional digits
\* (the digits themselves are not expanded)
Numeral(x, digits) ==
    IF IsNaN(x) THEN [text |-> "nan", value |-> NaN, digits |-> 0]
    ELSE [text |-> "number", value |-> x, digits |-> digits]
\* an integer cell as str() prints it
IntText(n) == [text |-> "int", value |-> n, digits |-> 0]
IsNullText(c) == c.text = "nan"
IsZeroText(c) == c.text = "number" /\ IsZero(c.value)

\* the distinct non-missing floats of a key column in ascending order, as
\* groupby and sort_values order them
RECURSIVE SortFloats(_)
SortFloats(S) ==
    IF S = {} THEN <<>>
    ELSE LET m == CHOOSE x \in S : \A y \in S \ {x} : Sign(XSub(y, x)) > 0
         IN  <<m>> \o SortFloats(S \ {m})

\* ---- sec7/plot_sec7.py ---------------------------------------------------
Sec7Numeric == <<"stride", "rep", "secs", "cache_misses", "cache_references",
                 "LLC_load_misses", "L1_dcache_load_misses">>
Sec7Cols == Range(Sec7Numeric)
Sec7Out == <<"Stride", "Runtime_mean(s)", "Runtime_std(s)", "miss_rate_mean",
             "miss_rate_std", "LLC_load_misses(avg)", "L1_dcache_load_misses(avg)">>
Sec7Md == "out/section_7_cache_miss.md"

\* lines 12-16: numeric coercion with missing -> 0, then the miss rate
sec7_miss_rate(r) ==
    IF Sign(r["cache_references"]) > 0
    THEN XDiv(r["cache_misses"], r["cache_references"]) ELSE Num(0)
Sec7Frame(file) ==
    LET num == [i \in 1..Len(file.rows) |->
                   [c \in file.cols |->
                       IF c \in Sec7Cols THEN fillna0(to_numeric(file.rows[i][c]))
                       ELSE file.rows[i][c]]]
    IN  Table(file.cols \cup {"miss_rate"},
              [i \in 1..Len(num) |-> num[i] @@ [c \in {"miss_rate"} |-> sec7_miss_rate(num[i])]])

\* lines 18-25: one row per stride, ascending
Sec7AggRow(rows, s) ==
    LET grp == Filter(rows, LAMBDA r : r["stride"] = s)
    IN  [c \in {"stride", "secs_mean", "secs_std", "mr_mean", "mr_std",
                "LLC_miss_avg", "L1_miss_avg"} |->
            CASE c = "stride" -> s
              [] c = "secs_mean" -> mean(Column(grp, "secs"))
              [] c = "secs_std" -> std(Column(grp, "secs"))
              [] c = "mr_mean" -> mean(Column(grp, "miss_rate"))
              [] c = "mr_std" -> std(Column(grp, "miss_rate"))
              [] c = "LLC_miss_avg" -> mean(Column(grp, "LLC_load_misses"))
              [] OTHER -> mean(Column(grp, "L1_dcache_load_misses"))]
Sec7Agg(frame) ==
    LET keys == SortFloats({frame.rows[i]["stride"] : i \in 1..Len(frame.rows)})
    IN  Table({"stride", "secs_mean", "secs_std", "mr_mean", "mr_std",
               "LLC_miss_avg", "L1_miss_avg"},
              [i \in 1..Len(keys) |-> Sec7AggRow(frame.rows, keys[i])])

\* lines 45-57: show.to_markdown(index=False, floatfmt='.6f')
Sec7Show(agg) ==
    Table(Range(Sec7Out),
          [i \in 1..Len(agg.rows) |->
              LET r == agg.rows[i]
              IN  [c \in Range(Sec7Out) |->
                      CASE c = "Stride" -> Numeral(r["stride"], 6)
                        [] c = "Runtime_mean(s)" -> Numeral(r["secs_mean"], 6)
                        [] c = "Runtime_std(s)" -> Numeral(r["secs_std"], 6)
                        [] c = "miss_rate_mean" -> Numeral(r["mr_mean"], 6)
                        [] c = "miss_rate_std" -> Numeral(r["mr_std"], 6)
                        [] c = "LLC_load_misses(avg)" -> Numeral(r["LLC_miss_avg"], 6)
                        [] OTHER -> Numeral(r["L1_miss_avg"], 6)]])

\* ---- sec5/plot_sec5.py ---------------------------------------------------
Sec5Cols == {"bandwidth_gbs", "latency_ns"}
Sec5Md == "out/section_5_intensity.md"

\* the rational value of a finite rational double
AsRat(x) == IF IsZero(x) THEN RatInt(0) ELSE TheTerm(x).c
\* np.round / Series.round(): the nearest integer, ties to the even one
RoundHalfEven(q) ==
    LET fl == q[1] \div q[2]
        rem == q[1] - fl * q[2]
    IN  IF 2 * rem < q[2] THEN fl
        ELSE IF 2 * rem > q[2] THEN fl + 1
        ELSE IF fl % 2 = 0 THEN fl ELSE fl + 1
\* line 11: (bandwidth_gbs / 0.25).round() * 0.25
bw_bucket(bw) == Frac(RoundHalfEven(RatMul(AsRat(bw), RatInt(4))), 4)

\* lines 5-8 and 11: coercion, dropna() and the bucket column
Sec5Frame(file) ==
    LET num == [i \in 1..Len(file.rows) |->
                   [c \in file.cols |->
                       IF c \in Sec5Cols THEN to_numeric(file.rows[i][c]) ELSE file.rows[i][c]]]
        kept == Filter(num, LAMBDA r : \A c \in file.cols : ~IsNaN(r[c]))
    IN  Table(file.cols \cup {"bw_bucket"},
              [i \in 1..Len(kept) |->
                  kept[i] @@ [c \in {"bw_bucket"} |-> bw_bucket(kept[i]["bandwidth_gbs"])]])

\* lines 12-15: count, mean and std of the latency per bucket, ascending
Sec5AggRow(rows, b) ==
    LET grp == Filter(rows, LAMBDA r : r["bw_bucket"] = b)
    IN  [c \in {"bandwidth_gbs", "count", "mean", "std"} |->
            CASE c = "bandwidth_gbs" -> b
              [] c = "count" -> count(Column(grp, "latency_ns"))
              [] c = "mean" -> mean(Column(grp, "latency_ns"))
              [] OTHER -> std(Column(grp, "latency_ns"))]
Sec5Agg(frame) ==
    LET keys == SortFloats({frame.rows[i]["bw_bucket"] : i \in 1..Len(frame.rows)})
    IN  Table({"bandwidth_gbs", "count", "mean", "std"},
              [i \in 1..Len(keys) |-> Sec5AggRow(frame.rows, keys[i])])

\* lines 59-65: the table of the Markdown document, one line per bucket
Sec5Out == <<"Throughput (GB/s)", "Mean Latency (ns)", "Std (ns)", "Count">>
Sec5TableMd(agg) ==
    Table(Range(Sec5Out),
          [i \in 1..Len(agg.rows) |->
              LET r == agg.rows[i]
                  sd == IF IsNaN(r["std"]) THEN Num(0) ELSE r["std"]
              IN  [c \in Range(Sec5Out) |->
                      CASE c = "Throughput (GB/s)" -> Numeral(r["bandwidth_gbs"], 2)
                        [] c = "Mean Latency (ns)" -> Numeral(r["mean"], 2)
                        [] c = "Std (ns)" -> Numeral(sd, 2)
                        [] OTHER -> IntText(r["count"])]])


\* np.gradient(f, x, edge_order=2) over unevenly spaced coordinates (three or
\* more points): second-order differences inside and at both ends; f and x
\* are sequences of rationals
RatSub(a, b) == RatAdd(a, RatNeg(b))
RatDiv(a, b) == RatMul(a, RatInv(b))
Lin3(a, f1, b, f2, c, f3) == RatAdd(RatAdd(RatMul(a, f1), RatMul(b, f2)), RatMul(c, f3))
GradFirst(f1, f2, f3, dx1, dx2) ==
    Lin3(RatNeg(RatDiv(RatAdd(RatMul(RatInt(2), dx1), dx2), RatMul(dx1, RatAdd(dx1, dx2)))), f1,
         RatDiv(RatAdd(dx1, dx2), RatMul(dx1, dx2)), f2,
         RatNeg(RatDiv(dx1, RatMul(dx2, RatAdd(dx1, dx2)))), f3)
GradLast(f1, f2, f3, dx1, dx2) ==
    Lin3(RatDiv(dx2, RatMul(dx1, RatAdd(dx1, dx2))), f1,
         RatNeg(RatDiv(RatAdd(dx2, dx1), RatMul(dx1, dx2))), f2,
         RatDiv(RatAdd(RatMul(RatInt(2), dx2), dx1), RatMul(dx2, RatAdd(dx1, dx2))), f3)
GradInner(f1, f2, f3, hs, hd) ==
    Lin3(RatNeg(RatDiv(hd, RatMul(hs, RatAdd(hd, hs)))), f1,
         RatDiv(RatSub(hd, hs), RatMul(hd, hs)), f2,
         RatDiv(hs, RatMul(hd, RatAdd(hd, hs))), f3)
gradient(f, x) ==
    [i \in 1..Len(x) |->
        IF i = 1 THEN GradFirst(f[1], f[2], f[3], RatSub(x[2], x[1]), RatSub(x[3], x[2]))
        ELSE IF i = Len(x)
        THEN GradLast(f[i - 2], f[i - 1], f[i], RatSub(x[i - 1], x[i - 2]), RatSub(x[i], x[i - 1]))
        ELSE GradInner(f[i - 1], f[i], f[i + 1], RatSub(x[i], x[i - 1]), RatSub(x[i + 1], x[i]))]

\* lines 39 and 40: the index of the largest |d2| / (1 + d1^2)^1.5, the first
\* one on a tie (curvatures are compared by their squares)
RatCube(a) == RatMul(a, RatMul(a, a))
CurvSq(d1, d2) == RatDiv(RatMul(d2, d2), RatCube(RatAdd(RatInt(1), RatMul(d1, d1))))
RatLess(a, b) == a[1] * b[2] < b[1] * a[2]
argmax_curv(curv2) ==
    CHOOSE i \in 1..Len(curv2) :
        /\ \A j \in 1..(i - 1) : RatLess(curv2[j], curv2[i])
        /\ \A j \in (i + 1)..Len(curv2) : ~RatLess(curv2[i], curv2[j])

\* lines 18 and 32-43: the knee text
NoKnee == [text |-> "N/A"]
\* (a knee also with two buckets: the last one)
knee_txt_two_buckets(agg) ==
    IF Len(agg.rows) >= 2
    THEN [bw |-> Numeral(agg.rows[Len(agg.rows)]["bandwidth_gbs"], 2),
          lat |-> Numeral(agg.rows[Len(agg.rows)]["mean"], 1)]
    ELSE NoKnee
knee_txt(agg) ==
    LET x == [i \in 1..Len(agg.rows) |-> AsRat(agg.rows[i]["bandwidth_gbs"])]
        y == [i \in 1..Len(agg.rows) |-> AsRat(agg.rows[i]["mean"])]
    IN  IF Len(x) >= 3 /\ \A i \in 1..(Len(x) - 1) : RatLess(x[i], x[i + 1])
        THEN LET d1 == gradient(y, x)
                 d2 == gradient(d1, x)
                 i == argmax_curv([k \in 1..Len(x) |-> CurvSq(d1[k], d2[k])])
             IN  [bw |-> Numeral(agg.rows[i]["bandwidth_gbs"], 2),
                  lat |-> Numeral(agg.rows[i]["mean"], 1)]
        ELSE NoKnee

Sec5Fig == "figs/sec5/throughput_latency.png"


\* ---- sec2/plot_sec2.py ---------------------------------------------------
levels == <<"L1", "L2", "L3", "DRAM">>
rw_types == <<"read", "write">>
Sec2Cols == {"level", "rw", "cycles_per_access"}

\* lines 5-8: coercion, dropna on the cycles, ns = cycles * 1000 / MHz
Sec2Frame(file, mhz) ==
    LET kept == Filter(file.rows, LAMBDA r : ~IsNaN(to_numeric(r["cycles_per_access"])))
    IN  Table(file.cols \cup {"ns_per_access"},
              [i \in 1..Len(kept) |->
                  [c \in file.cols \cup {"ns_per_access"} |->
                      IF c = "ns_per_access"
                      THEN XDiv(XScale(to_numeric(kept[i]["cycles_per_access"]), RatInt(1000)), mhz)
                      ELSE IF c = "cycles_per_access" THEN to_numeric(kept[i][c])
                      ELSE kept[i][c]]])
\* line 10: mean and std per (level, rw), ascending
Sec2Summary(frame) ==
    LET keys == SortTuples({KeyOf(frame.rows[i], <<"level", "rw">>) : i \in 1..Len(frame.rows)},
                           <<"level", "rw">>)
    IN  Table({"level", "rw", "mean", "std"},
              [k \in 1..Len(keys) |->
                  LET grp == Column(Filter(frame.rows,
                                           LAMBDA r : KeyOf(r, <<"level", "rw">>) = keys[k]),
                                    "ns_per_access")
                  IN  [c \in {"level", "rw", "mean", "std"} |->
                          CASE c = "level" -> keys[k][1] [] c = "rw" -> keys[k][2]
                            [] c = "mean" -> mean(grp) [] OTHER -> std(grp)]])
\* lines 19-21: sub[sub['level']==lv][...].values of one bar
BarCells(t, rw, lv) == Filter(t.rows, LAMBDA r : r["rw"] = rw /\ r["level"] = lv)
\* lines 41-42: summary.pivot(index='level', columns='rw', values=...).round(3)
Sec2Pivot(t, value) ==
    LET lvs == SortTuples({<<t.rows[i]["level"]>> : i \in 1..Len(t.rows)}, <<"level">>)
        rws == {t.rows[i]["rw"] : i \in 1..Len(t.rows)}
    IN  Table({"level"} \cup rws,
              [k \in 1..Len(lvs) |->
                  [c \in {"level"} \cup rws |->
                      IF c = "level" THEN lvs[k][1]
                      ELSE IF BarCells(t, c, lvs[k][1]) = <<>> THEN Numeral(NaN, 3)
                      ELSE Numeral(BarCells(t, c, lvs[k][1])[1][value], 3)]])

\* ---- sec4/plot_sec4.py ---------------------------------------------------
Sec4Numeric == {"read_pct", "bw_gbs", "stride_B"}
Sec4Cols == {"mode"} \cup Sec4Numeric
\* lines 12-16
Sec4Frame(file) ==
    LET num == [i \in 1..Len(file.rows) |->
                   [c \in file.cols |->
                       IF c \in Sec4Numeric THEN to_numeric(file.rows[i][c]) ELSE file.rows[i][c]]]
    IN  Table(file.cols, Filter(num, LAMBDA r : \A c \in Sec4Numeric : ~IsNaN(r[c])))
\* the modes in ascending order, and the read percentages of some rows
Sec4Modes(rows) == SortTuples({<<rows[i]["mode"]>> : i \in 1..Len(rows)}, <<"mode">>)
Sec4Reads(rows) == SortFloats({rows[i]["read_pct"] : i \in 1..Len(rows)})
\* lines 19-23: mean, std and size of bw_gbs per (mode, read_pct), ascending
Sec4Summary(frame) ==
    Table({"mode", "read_pct", "bw_mean", "bw_std", "samples"},
          Flatten([m \in 1..Len(Sec4Modes(frame.rows)) |->
              LET mode == Sec4Modes(frame.rows)[m][1]
                  mine == Filter(frame.rows, LAMBDA r : r["mode"] = mode)
                  reads == Sec4Reads(mine)
              IN  [k \in 1..Len(reads) |->
                      LET grp == Column(Filter(mine, LAMBDA r : r["read_pct"] = reads[k]), "bw_gbs")
                      IN  [c \in {"mode", "read_pct", "bw_mean", "bw_std", "samples"} |->
                              CASE c = "mode" -> mode [] c = "read_pct" -> reads[k]
                                [] c = "bw_mean" -> mean(grp) [] c = "bw_std" -> std(grp)
                                [] OTHER -> Len(grp)]]]))
\* lines 37-41: the bars of one mode: reindex over all read levels, a level
\* without a row gives NaN
Sec4Bars(t, mode) ==
    LET reads == Sec4Reads(t.rows)
    IN  [k \in 1..Len(reads) |->
            LET hit == Filter(t.rows, LAMBDA r : r["mode"] = mode /\ r["read_pct"] = reads[k])
            IN  [c \in {"mode", "read_pct", "bw_mean", "bw_std"} |->
                    CASE c = "mode" -> mode [] c = "read_pct" -> reads[k]
                      [] hit = <<>> -> NaN
                      [] OTHER -> hit[1][c]]]
Sec4Figure(t) ==
    Table({"mode", "read_pct", "bw_mean", "bw_std"},
          Flatten([m \in 1..Len(Sec4Modes(t.rows)) |-> Sec4Bars(t, Sec4Modes(t.rows)[m][1])]))
\* lines 56-70: the table of one mode; iterrows() hands every cell over as a
\* float, printed by str()
Sec4TableCols == <<"read_pct", "bw_mean", "bw_std", "samples">>
Sec4ModeTable(t, mode) ==
    LET mine == Filter(t.rows, LAMBDA r : r["mode"] = mode)
    IN  [i \in 1..Len(mine) |->
            [c \in {"mode"} \cup Range(Sec4TableCols) |->
                CASE c = "mode" -> mode
                  [] c = "read_pct" -> Numeral(mine[i]["read_pct"], 1)
                  [] c = "bw_mean" -> Numeral(mine[i]["bw_mean"], 3)
                  [] c = "bw_std" -> Numeral(mine[i]["bw_std"], 3)
                  [] OTHER -> Numeral(Num(mine[i]["samples"]), 1)]]
\* lines 65-76: the tables of the document, each row with the mode of its title
Sec4Tables(t) ==
    Table({"mode"} \cup Range(Sec4TableCols),
          Flatten([m \in 1..Len(Sec4Modes(t.rows)) |-> Sec4ModeTable(t, Sec4Modes(t.rows)[m][1])]))

\* ---- inputs of the section scripts ----------------------------------------
MaxCacheRows == 3

\* rows of the perf CSV of section 7
Sec7Row(stride, secs, refs) ==
    [c \in Sec7Cols |->
        CASE c = "stride" -> stride [] c = "secs" -> secs
          [] c = "cache_references" -> refs [] OTHER -> Num(1)]
Sec7Universe ==
    SetToSeq({Sec7Row(Num(s), Num(t), r) :
                 s \in {1, 2}, t \in {1, 2}, r \in {Num(0), Num(2), Unparsed}})
Sec7Tables ==
    {File(Sec7Cols, [i \in 1..Len(s) |-> Sec7Universe[s[i]]]) :
        s \in Picks(Len(Sec7Universe), MaxCacheRows)}
    \cup {File(Sec7Cols \ {"cache_references"}, <<>>)}

\* rows of the loaded-latency CSV of section 5
Sec5Row(bw, lat) == [c \in Sec5Cols |-> IF c = "bandwidth_gbs" THEN bw ELSE lat]
Sec5Universe ==
    SetToSeq({Sec5Row(b, l) :
                 b \in {Num(1), Frac(9, 8), Frac(11, 8), Num(2), Unparsed},
                 l \in {Num(1), Num(3), Unparsed}})
Sec5Tables ==
    {File(Sec5Cols, [i \in 1..Len(s) |-> Sec5Universe[s[i]]]) :
        s \in Picks(Len(Sec5Universe), MaxCacheRows)}
    \cup {File({"bandwidth_gbs"}, <<>>)}

NoSimdInputs == simd_csv = NoFile /\ scalar_csv = NoFile /\ summary_csv = NoFile

InitSec7 ==
    /\ script = "sec7" /\ args = <<>>
    /\ csv \in Sec7Tables \cup {NoFile}
InitSec5 ==
    /\ script = "sec5" /\ args = <<"figs/sec5", Sec5Md>>
    /\ csv \in Sec5Tables \cup {NoFile}

\* ---- plot_sec7.py ---------------------------------------------------------
\* lines 11-16
Sec7Load ==
    /\ script = "sec7" /\ pc = "start"
    /\ IF ~csv.exists THEN df' = df /\ Fail(Error("FileNotFoundError", {"csv"}))
       ELSE IF ~(Sec7Cols \subseteq csv.cols)
       THEN df' = df /\ Fail(KeyError1(Sec7Numeric, csv.cols))
       ELSE df' = Sec7Frame(csv) /\ pc' = "agg" /\ err' = err
    /\ UNCHANGED <<series, reduced, inputs, scalar, handles, merged, geo, summary, final, calls, out>>

\* lines 18-25
Sec7Aggregate ==
    /\ script = "sec7" /\ pc = "agg"
    /\ summary' = Sec7Agg(df)
    /\ pc' = "write"
    /\ UNCHANGED <<series, reduced, inputs, scalar, handles, df, merged, geo, final, calls, out, err>>

\* lines 27-63: the two figures, then the Markdown document
Sec7Write ==
    /\ script = "sec7" /\ pc = "write"
    /\ final' = Sec7Show(summary)
    /\ out' = {[file |-> f, table |-> summary] :
                  f \in {"figs/sec7/saxpy_runtime.png", "figs/sec7/saxpy_runtime_vs_miss.png"}}
              \cup {[file |-> Sec7Md, table |-> final']}
    /\ pc' = "done"
    /\ UNCHANGED <<series, reduced, inputs, scalar, handles, df, merged, geo, summary, calls, err>>

\* ---- plot_sec5.py ---------------------------------------------------------
\* lines 5-11
Sec5Load ==
    /\ script = "sec5" /\ pc = "start"
    /\ IF ~csv.exists THEN df' = df /\ Fail(Error("FileNotFoundError", {"csv"}))
       ELSE IF ~(Sec5Cols \subseteq csv.cols)
       THEN df' = df /\ Fail(KeyError1(<<"bandwidth_gbs", "latency_ns">>, csv.cols))
       ELSE df' = Sec5Frame(csv) /\ pc' = "agg" /\ err' = err
    /\ UNCHANGED <<series, reduced, inputs, scalar, handles, merged, geo, summary, final, calls, out>>

\* lines 12-15
Sec5Bucket ==
    /\ script = "sec5" /\ pc = "agg"
    /\ summary' = Sec5Agg(df)
    /\ pc' = "plot"
    /\ UNCHANGED <<series, reduced, inputs, scalar, handles, df, merged, geo, final, calls, out, err>>

\* lines 17-53: the error-bar curve and the knee with two buckets or more,
\* else the scatter of the samples
Sec5Plot ==
    /\ script = "sec5" /\ pc = "plot"
    /\ IF Len(summary.rows) >= 2
       THEN /\ handles' = <<knee_txt(summary)>>
            /\ out' = {[file |-> Sec5Fig, table |-> summary]}
       ELSE /\ handles' = <<NoKnee>>
            /\ out' = {[file |-> Sec5Fig, table |-> df]}
    /\ pc' = "write"
    /\ UNCHANGED <<series, reduced, inputs, scalar, df, merged, geo, summary, final, calls, err>>

\* lines 56-71: the Markdown document (its table only with a bucket or more)
Sec5Write ==
    /\ script = "sec5" /\ pc = "write"
    /\ final' = IF Len(summary.rows) > 0 THEN Sec5TableMd(summary) ELSE NoTable
    /\ out' = out \cup {[file |-> Sec5Md, table |-> final']}
    /\ pc' = "done"
    /\ UNCHANGED <<series, reduced, inputs, scalar, handles, df, merged, geo, summary, calls, err>>

\* ---- the inputs of plot_sec2.py and plot_sec4.py --------------------------
\* the latency CSV of section 2: one sample per (level, rw), up to
\* MaxCacheRows of them left out, and possibly one more sample
Sec2Row(lv, rw, cyc) ==
    [c \in Sec2Cols |-> CASE c = "level" -> lv [] c = "rw" -> rw [] OTHER -> cyc]
Sec2Base == [i \in 1..8 |-> Sec2Row(levels[((i - 1) \div 2) + 1], rw_types[((i - 1) % 2) + 1], Num(1))]
Sec2Extra == {<<>>, <<Sec2Row("L1", "read", Num(3))>>, <<Sec2Row("L2", "write", Unparsed)>>}
Sec2Tables ==
    {File(Sec2Cols, SelectSeq(Sec2Base, LAMBDA r : r \notin {Sec2Base[i] : i \in gone}) \o extra) :
        gone \in {g \in SUBSET (1..8) : Cardinality(g) <= MaxCacheRows}, extra \in Sec2Extra}
    \cup {File(Sec2Cols \ {"rw"}, <<>>)}

Sec4Row(mode, pct, bw, stride) ==
    [c \in Sec4Cols |->
        CASE c = "mode" -> mode [] c = "read_pct" -> pct [] c = "bw_gbs" -> bw [] OTHER -> stride]
Sec4Universe ==
    SetToSeq({Sec4Row(m, Num(p), Num(b), Num(64)) : m \in {"seq", "rand"}, p \in {50, 100}, b \in {1, 3}}
             \cup {Sec4Row("seq", Unparsed, Num(1), Num(64)), Sec4Row("rand", Num(50), Num(1), Unparsed)})
Sec4Inputs ==
    {File(Sec4Cols, [i \in 1..Len(s) |-> Sec4Universe[s[i]]]) :
        s \in Picks(Len(Sec4Universe), MaxCacheRows)}
    \cup {File(Sec4Cols \ {"stride_B"}, <<>>)}

Sec2Fig == "figs/sec2/latency.png"
Sec2Md == "out/section_2_zeroq.md"
InitSec2 ==
    /\ script = "sec2" /\ args \in {<<Num(m), Sec2Fig, Sec2Md>> : m \in {1000, 2000}}
    /\ csv \in Sec2Tables \cup {NoFile}
InitSec4 ==
    /\ script = "sec4" /\ args = <<"figs", "out">>
    /\ csv \in Sec4Inputs \cup {NoFile}

\* ---- plot_sec2.py ---------------------------------------------------------
\* lines 5-8
Sec2Load ==
    /\ script = "sec2" /\ pc = "start"
    /\ IF ~csv.exists THEN df' = df /\ Fail(Error("FileNotFoundError", {"csv"}))
       ELSE IF "cycles_per_access" \notin csv.cols
       THEN df' = df /\ Fail(KeyError1(<<"cycles_per_access">>, csv.cols))
       ELSE df' = Sec2Frame(csv, args[1]) /\ pc' = "agg" /\ err' = err
    /\ UNCHANGED <<series, reduced, inputs, scalar, handles, merged, geo, summary, final, calls, out>>

\* line 10
Sec2Summarize ==
    /\ script = "sec2" /\ pc = "agg"
    /\ IF {"level", "rw"} \subseteq df.cols
       THEN summary' = Sec2Summary(df) /\ pc' = "plot" /\ err' = err
       ELSE summary' = summary /\ Fail(KeyError1(<<"level", "rw">>, df.cols))
    /\ UNCHANGED <<series, reduced, inputs, scalar, handles, df, merged, geo, final, calls, out>>

\* lines 14-39: the bars of every (rw, level); .values[0] of a combination
\* without a row raises IndexError before the figure is saved
Sec2Plot ==
    /\ script = "sec2" /\ pc = "plot"
    /\ IF \E r \in Range(rw_types), lv \in Range(levels) : BarCells(summary, r, lv) = <<>>
       THEN out' = out /\ Fail(Error("IndexError", {}))
       ELSE out' = {[file |-> args[2], table |-> summary]} /\ pc' = "write" /\ err' = err
    /\ UNCHANGED <<series, reduced, inputs, scalar, handles, df, merged, geo, summary, final, calls>>

\* lines 41-57: the two pivots (mean in final, std in geo) and the document
Sec2Write ==
    /\ script = "sec2" /\ pc = "write"
    /\ final' = Sec2Pivot(summary, "mean")
    /\ geo' = Sec2Pivot(summary, "std")
    /\ out' = out \cup {[file |-> args[3], table |-> final']}
    /\ pc' = "done"
    /\ UNCHANGED <<series, reduced, inputs, scalar, handles, df, merged, summary, calls, err>>

\* ---- plot_sec4.py ---------------------------------------------------------
\* lines 12-16
Sec4Load ==
    /\ script = "sec4" /\ pc = "start"
    /\ IF ~csv.exists THEN df' = df /\ Fail(Error("FileNotFoundError", {"csv"}))
       ELSE IF ~(Sec4Numeric \subseteq csv.cols)
       THEN df' = df /\ Fail(KeyError1(<<"read_pct", "bw_gbs", "stride_B">>, csv.cols))
       ELSE df' = Sec4Frame(csv) /\ pc' = "agg" /\ err' = err
    /\ UNCHANGED <<series, reduced, inputs, scalar, handles, merged, geo, summary, final, calls, out>>

\* lines 19-27: the summary and rwmix_summary.csv
Sec4Summarize ==
    /\ script = "sec4" /\ pc = "agg"
    /\ summary' = Sec4Summary(df)
    /\ out' = {[file |-> "rwmix_summary.csv", table |-> summary']}
    /\ pc' = "plot"
    /\ UNCHANGED <<series, reduced, inputs, scalar, handles, df, merged, geo, final, calls, err>>

\* lines 29-53: the bars of every mode over all read levels
Sec4Plot ==
    /\ script = "sec4" /\ pc = "plot"
    /\ geo' = Sec4Figure(summary)
    /\ out' = out \cup {[file |-> "figs/sec4/bw_rwmix.png", table |-> geo']}
    /\ pc' = "write"
    /\ UNCHANGED <<series, reduced, inputs, scalar, handles, df, merged, summary, final, calls, err>>

\* lines 56-84: the tables and the document
Sec4Write ==
    /\ script = "sec4" /\ pc = "write"
    /\ final' = Sec4Tables(summary)
    /\ out' = out \cup {[file |-> "out/section_4_rwmix.md", table |-> final']}
    /\ pc' = "done"
    /\ UNCHANGED <<series, reduced, inputs, scalar, handles, df, merged, geo, summary, calls, err>>

InitCache ==
    Fresh /\ NoSeries /\ NoSimdInputs /\ (InitSec7 \/ InitSec5 \/ InitSec2 \/ InitSec4)

NextCache ==
    \/ Sec7Load \/ Sec7Aggregate \/ Sec7Write
    \/ Sec5Load \/ Sec5Bucket \/ Sec5Plot \/ Sec5Write
    \/ Sec2Load \/ Sec2Summarize \/ Sec2Plot \/ Sec2Write
    \/ Sec4Load \/ Sec4Summarize \/ Sec4Plot \/ Sec4Write

SpecCache == InitCache /\ [][NextCache]_vars

\* ------------------------------------------------------------------------
\* make_stride_report
\* ------------------------------------------------------------------------
StrideKeys == <<"kernel", "dtype", "n", "stride">>
cols_need == {"kernel", "dtype", "n", "stride", "gflops", "cpe"}
strides == {1, 2, 4, 8}
NormKeys == <<"kernel", "dtype", "n">>

\* a stable sort of the rows by the key columns (sort_values on several
\* columns keeps equal keys in their order)
RECURSIVE InsertRow(_, _, _)
InsertRow(r, sorted, by) ==
    IF sorted = <<>> THEN <<r>>
    ELSE IF TupleLess(KeyOf(r, by), KeyOf(Head(sorted), by), by) THEN <<r>> \o sorted
    ELSE <<Head(sorted)>> \o InsertRow(r, Tail(sorted), by)
RECURSIVE SortRows(_, _)
SortRows(rows, by) ==
    IF rows = <<>> THEN <<>>
    ELSE InsertRow(rows[Len(rows)], SortRows(SubSeq(rows, 1, Len(rows) - 1), by), by)

\* (a filter that is not idempotent: it drops the first row)
filter_rows_skip_first(frame) == IF frame.rows = <<>> THEN <<>> ELSE Tail(frame.rows)
\* filter_ok, lines 34-39: each filter applies only when its column exists
filter_rows(frame) ==
    LET t1 == IF "verified" \in frame.cols
              THEN Filter(frame.rows, LAMBDA r : r["verified"] = 1) ELSE frame.rows
        t2 == IF "misalign" \in frame.cols
              THEN Filter(t1, LAMBDA r : r["misalign"] = 0) ELSE t1
    IN  IF "stride" \in frame.cols
        THEN Filter(t2, LAMBDA r : r["stride"] \in strides) ELSE t2
\* filter_ok, lines 40-44
filter_ok(frame) == Table(frame.cols, filter_rows(frame))

\* main, line 207
df_abs(frame) ==
    Table(cols_need, [i \in 1..Len(frame.rows) |-> [c \in cols_need |-> frame.rows[i][c]]])

\* (the base taken from the last stride = 1 row of the group)
norm_group_last_base(g, col) ==
    LET ones == Filter(g, LAMBDA r : r["stride"] = 1)
        base == ones[Len(ones)][col]
        rel(r) == IF ones = <<>> THEN NaN
                  ELSE IF IsZero(base) \/ ~IsFin(base) THEN NaN
                  ELSE XDiv(r[col], base)
    IN  [i \in 1..Len(g) |-> g[i] @@ [c \in {col \o "_rel"} |-> rel(g[i])]]
\* normalize_to_stride1._norm, lines 48-54, for the rows g of one group
norm_group(g, col) ==
    LET ones == Filter(g, LAMBDA r : r["stride"] = 1)
        base == ones[1][col]
        rel(r) == IF ones = <<>> THEN NaN
                  ELSE IF IsZero(base) \/ ~IsFin(base) THEN NaN
                  ELSE XDiv(r[col], base)
    IN  [i \in 1..Len(g) |-> g[i] @@ [c \in {col \o "_rel"} |-> rel(g[i])]]
\* normalize_to_stride1, line 55: the groups in ascending key order
normalize_to_stride1(frame, col) ==
    LET keys == SortTuples({KeyOf(frame.rows[i], NormKeys) : i \in 1..Len(frame.rows)}, NormKeys)
    IN  Table(frame.cols \cup {col \o "_rel"},
              Flatten([k \in 1..Len(keys) |->
                  norm_group(Filter(frame.rows, LAMBDA r : KeyOf(r, NormKeys) = keys[k]), col)]))

\* write_md, lines 59-76: left merge on the keys, sorted, one line per row
StrideMdCols == <<"kernel", "dtype", "N", "stride", "GFLOP/s", "CPE", "GFLOP/s rel(s=1)">>
write_md(abs, rel) ==
    LET m == SortRows([i \in 1..Len(MergePairs(abs.rows, rel.rows, StrideKeys)) |->
                          LET p == MergePairs(abs.rows, rel.rows, StrideKeys)[i]
                          IN  p[1] @@ [c \in {"gflops_rel"} |-> p[2]["gflops_rel"]]],
                      StrideKeys)
    IN  Table(Range(StrideMdCols),
              [i \in 1..Len(m) |->
                  [c \in Range(StrideMdCols) |->
                      CASE c = "kernel" -> m[i]["kernel"]
                        [] c = "dtype" -> m[i]["dtype"]
                        [] c = "N" -> IntText(m[i]["n"])
                        [] c = "stride" -> IntText(m[i]["stride"])
                        [] c = "GFLOP/s" -> Numeral(m[i]["gflops"], 3)
                        [] c = "CPE" -> Numeral(m[i]["cpe"], 3)
                        [] OTHER -> Numeral(m[i]["gflops_rel"], 3)]])

\* (the lower middle of an even number of sizes)
pick_three_lower_middle(Ns) ==
    IF Len(Ns) = 0 THEN <<>>
    ELSE IF Len(Ns) = 1 THEN <<Ns[1]>>
    ELSE IF Len(Ns) = 2 THEN <<Ns[1], Ns[Len(Ns)]>>
    ELSE <<Ns[1], Ns[(Len(Ns) + 1) \div 2], Ns[Len(Ns)]>>
\* pick_three_Ns, lines 83-93, for the sorted distinct n of one dtype
pick_three(Ns) ==
    IF Len(Ns) = 0 THEN <<>>
    ELSE IF Len(Ns) = 1 THEN <<Ns[1]>>
    ELSE IF Len(Ns) = 2 THEN <<Ns[1], Ns[Len(Ns)]>>
    ELSE <<Ns[1], Ns[(Len(Ns) \div 2) + 1], Ns[Len(Ns)]>>
RECURSIVE SortNat(_)
SortNat(S) ==
    IF S = {} THEN <<>>
    ELSE LET m == CHOOSE x \in S : \A y \in S : x <= y IN <<m>> \o SortNat(S \ {m})
pick_three_Ns(frame, dt) ==
    pick_three(SortNat({frame.rows[i]["n"] : i \in {j \in 1..Len(frame.rows) : frame.rows[j]["dtype"] = dt}}))
\* plot_kernel_dtype_grouped_bars, lines 106-118 and 167-171: the plotted rows
plot_rows(frame) ==
    LET groups == SortTuples({KeyOf(frame.rows[i], <<"kernel", "dtype">>) : i \in 1..Len(frame.rows)},
                             <<"kernel", "dtype">>)
    IN  Flatten([k \in 1..Len(groups) |->
            SortRows(Filter(frame.rows, LAMBDA r :
                        /\ KeyOf(r, <<"kernel", "dtype">>) = groups[k]
                        /\ r["n"] \in Range(pick_three_Ns(frame, groups[k][2]))),
                     <<"n", "stride">>)])


\* main, line 203: load_df
StrideLoad ==
    /\ script = "stride" /\ pc = "start"
    /\ IF simd_csv.exists
       THEN df' = RenameGiBps(Table(simd_csv.cols, simd_csv.rows)) /\ pc' = "filter" /\ err' = err
       ELSE df' = df /\ Fail(Error("FileNotFoundError", {"data/simd.csv"}))
    /\ UNCHANGED <<series, reduced, inputs, scalar, handles, merged, geo, summary, final, calls, out>>

\* main, line 204: filter_ok
StrideFilter ==
    /\ script = "stride" /\ pc = "filter"
    /\ IF cols_need \subseteq df.cols
       THEN df' = filter_ok(df) /\ pc' = "normalize" /\ err' = err
       ELSE df' = df /\ Fail(Error("ValueError", cols_need \ df.cols))
    /\ UNCHANGED <<series, reduced, inputs, scalar, handles, merged, geo, summary, final, calls, out>>

\* main, lines 207-210: df_abs, df_rel and the two CSV files.  groupby.apply
\* of a frame without rows returns a frame whose columns depend on the pandas
\* release: with or without the new gflops_rel column
StrideNormalize ==
    /\ script = "stride" /\ pc = "normalize"
    /\ summary' = df_abs(df)
    /\ \/ geo' = normalize_to_stride1(summary', "gflops")
       \/ /\ df.rows = <<>>
          /\ geo' = Table(cols_need, <<>>)
    /\ out' = {[file |-> "data/stride_abs.csv", table |-> summary'],
               [file |-> "data/stride_rel.csv", table |-> geo']}
    /\ pc' = "md"
    /\ UNCHANGED <<series, reduced, inputs, scalar, handles, df, merged, final, calls, err>>

\* main, line 211: write_md
StrideWriteMd ==
    /\ script = "stride" /\ pc = "md"
    /\ IF "gflops_rel" \in geo.cols
       THEN /\ final' = write_md(summary, geo)
            /\ out' = out \cup {[file |-> "plots/stride/stride_summary.md", table |-> final']}
            /\ pc' = "plots" /\ err' = err
       ELSE /\ UNCHANGED <<final, out>>
            /\ Fail(KeyErrorAll(Range(StrideKeys) \cup {"gflops_rel"}, geo.cols))
    /\ UNCHANGED <<series, reduced, inputs, scalar, handles, df, merged, geo, summary, calls>>

\* main, lines 214-219: the optional line charts, the grouped bar charts and
\* data/stride_plotset.csv
LineCharts(t) ==
    {"plots/stride/" \o r["kernel"] \o "_" \o r["dtype"] \o "_N" \o ToString(r["n"]) \o s :
        r \in Range(t.rows), s \in {"_gflops_vs_stride.png", "_cpe_vs_stride.png"}}
BarCharts(rows) ==
    {"plots/stride/" \o r["kernel"] \o "_" \o r["dtype"] \o s :
        r \in Range(rows), s \in {"_gflops_grouped_by_stride.png", "_cpe_grouped_by_stride.png"}}
StridePlots ==
    /\ script = "stride" /\ pc = "plots"
    /\ LET shown == plot_rows(summary)
       IN  out' = out
                  \cup {[file |-> f, table |-> summary] :
                           f \in (IF args = <<"--with_lines">> THEN LineCharts(summary) ELSE {})
                                 \cup BarCharts(shown)}
                  \cup (IF shown = <<>> THEN {}
                        ELSE {[file |-> "data/stride_plotset.csv",
                               table |-> Table(cols_need, shown)]})
    /\ pc' = "done"
    /\ UNCHANGED <<series, reduced, inputs, scalar, handles, df, merged, geo, summary, final, calls, err>>

\* ------------------------------------------------------------------------
\* The generators on input files that lack columns or do not exist
\* ------------------------------------------------------------------------
MaxInputRows == 2
KeyD == <<"axpy", "f32", 3>>
InputUniverse ==
    << SimdRow(KeyA, 8, 0, 1, P1, "GiBps"), SimdRow(KeyA, 8, 1, 1, P2, "GiBps"),
       SimdRow(KeyA, 8, 0, 0, P2, "GiBps"), SimdRow(KeyA, 9, 0, 1, P2, "GiBps"),
       SimdRow(KeyB, 8, 0, 1, P1, "GiBps"), SimdRow(KeyD, 8, 0, 1, P1, "GiBps"),
       SimdRow(KeyA, 8, 0, 1, PZero, "GiBps") >>
\* the sets of columns a file may lack
Dropped ==
    {{}, {"verified"}, {"misalign"}, {"verified", "misalign"}, {"gflops"},
     {"kernel", "cpe"}, {"n"}, {"stride"}, {"dtype"}}
InputTables ==
    {File(SimdCols \ d, [i \in 1..Len(s) |-> [c \in SimdCols \ d |-> InputUniverse[s[i]][c]]]) :
        s \in Picks(Len(InputUniverse), MaxInputRows), d \in Dropped}

\* files of make_dtype_report: a column may be absent or spelt in another
\* letter case
Respelt ==
    {<<>>, [c \in {"kernel"} |-> "Kernel"], [c \in {"gflops"} |-> "GFLOPS"],
     [c \in {"gflops"} |-> "Gflops"], [c \in {"n"} |-> "N"]}
Spell(ren, c) == IF c \in DOMAIN ren THEN ren[c] ELSE c
DtypeInputRows == <<DtypeUniverse[1], DtypeUniverse[4]>>
DtypeInputTables ==
    {File({Spell(ren, c) : c \in DtypeCols \ d},
          [i \in 1..Len(s) |->
              [c \in {Spell(ren, x) : x \in DtypeCols \ d} |->
                  DtypeInputRows[s[i]][CHOOSE x \in DtypeCols : Spell(ren, x) = c]]]) :
        s \in Picks(Len(DtypeInputRows), MaxInputRows), ren \in Respelt, d \in {{}, {"cpe"}}}

InitInputs ==
    /\ Fresh /\ NoSeries /\ csv = NoFile
    /\ \/ /\ script = "align" /\ args = NoArgs /\ scalar_csv = NoFile
          /\ simd_csv \in InputTables \cup {NoFile}
          /\ summary_csv \in {NoFile, File(expected, <<SummaryUniverse[1]>>)}
       \/ /\ script = "tail" /\ args = NoArgs /\ scalar_csv = NoFile /\ summary_csv = NoFile
          /\ simd_csv \in InputTables \cup {NoFile}
       \/ /\ script = "stride" /\ args \in {NoArgs, <<"--with_lines">>}
          /\ scalar_csv = NoFile /\ summary_csv = NoFile
          /\ simd_csv \in InputTables \cup {NoFile}
       \/ /\ script = "dtype" /\ args = NoArgs /\ summary_csv = NoFile
          /\ simd_csv \in DtypeInputTables \cup {NoFile}
          /\ scalar_csv \in DtypeInputTables \cup {NoFile}

NextInputs ==
    \/ AlignRead \/ AlignLoad \/ AlignJoin \/ AlignGroup \/ AlignSelect
    \/ AlignAppend \/ AlignWrite
    \/ TailLoad \/ TailGeo \/ TailDeltaSummary \/ TailAppend \/ TailSave
    \/ StrideLoad \/ StrideFilter \/ StrideNormalize \/ StrideWriteMd \/ StridePlots
    \/ DtypeLoad \/ DtypeJoin \/ DtypeAggregate \/ DtypeReport

SpecInputs == InitInputs /\ [][NextInputs]_vars

\* ------------------------------------------------------------------------
\* make_roofline_report.apply_filters and make_stride_report.filter_ok as
\* functions: a table, a filter expression (a text, one character per cell)
\* ------------------------------------------------------------------------
\* str.split(sep)
RECURSIVE split(_, _)
split(text, sep) ==
    IF \A i \in 1..Len(text) : text[i] # sep THEN <<text>>
    ELSE LET k == CHOOSE i \in 1..Len(text) :
                     text[i] = sep /\ \A j \in 1..(i - 1) : text[j] # sep
         IN  <<SubSeq(text, 1, k - 1)>> \o split(SubSeq(text, k + 1, Len(text)), sep)
\* str.split("=", 1)
split1(text, sep) ==
    LET k == CHOOSE i \in 1..Len(text) : text[i] = sep /\ \A j \in 1..(i - 1) : text[j] # sep
    IN  <<SubSeq(text, 1, k - 1), SubSeq(text, k + 1, Len(text))>>
\* str.strip()
RECURSIVE lstrip(_)
lstrip(text) == IF text # <<>> /\ Head(text) = " " THEN lstrip(Tail(text)) ELSE text
RECURSIVE rstrip(_)
rstrip(text) ==
    IF text # <<>> /\ text[Len(text)] = " " THEN rstrip(SubSeq(text, 1, Len(text) - 1)) ELSE text
strip(text) == rstrip(lstrip(text))
\* the str of a text
RECURSIVE Join(_)
Join(text) == IF text = <<>> THEN "" ELSE Head(text) \o Join(Tail(text))

\* str.isdigit(): not empty, every character a digit; the superscript two is
\* a digit for isdigit() but no decimal for int()
Decimals == <<"0", "1", "2", "3", "4", "5", "6", "7", "8", "9">>
Superscript2 == "²"
isdigit(text) == text # <<>> /\ \A i \in 1..Len(text) : text[i] \in Range(Decimals) \cup {Superscript2}
IsDecimal(text) == text # <<>> /\ \A i \in 1..Len(text) : text[i] \in Range(Decimals)
RECURSIVE int(_)
int(text) ==
    IF text = <<>> THEN 0
    ELSE 10 * int(SubSeq(text, 1, Len(text) - 1))
         + (CHOOSE d \in 0..9 : Decimals[d + 1] = text[Len(text)])

\* Series == int(val) and Series.astype(str) == val for one cell; the cells
\* of the key columns are strings, the others integers or whole floats
StringCols == {"kernel", "dtype"}
EqualsInt(col, c, k) ==
    IF Lower(col) \in StringCols THEN FALSE
    ELSE IF Lower(col) \in IntCols THEN c = k
    ELSE c = Num(k)
astype_str(col, c) ==
    IF Lower(col) \in StringCols THEN c
    ELSE IF Lower(col) \in IntCols THEN ToString(c)
    ELSE IF IsNaN(c) THEN "nan"
    ELSE ToString(AsRat(c)[1]) \o ".0"

\* what a call returns or raises
Returned(t) == [table |-> t, err |-> NoError]
Raised(e) == [table |-> NoTable, err |-> e]

\* apply_filters, lines 128-140: one token applied to the running frame
apply_token(frame, tok) ==
    LET t == strip(tok)
        kv == split1(t, "=")
        key == Join(strip(kv[1]))
        val == strip(kv[2])
        col == IF pick_col(frame.cols, <<key>>) # NoCol THEN pick_col(frame.cols, <<key>>) ELSE key
    IN  IF t = <<>> \/ \A i \in 1..Len(t) : t[i] # "=" THEN Returned(frame)
        ELSE IF col \notin frame.cols THEN Returned(frame)
        ELSE IF isdigit(val)
        THEN IF IsDecimal(val)
             THEN Returned(Table(frame.cols, Filter(frame.rows, LAMBDA r : EqualsInt(col, r[col], int(val)))))
             ELSE Raised(Error("ValueError", {Join(val)}))
        ELSE Returned(Table(frame.cols, Filter(frame.rows, LAMBDA r : astype_str(col, r[col]) = Join(val))))
RECURSIVE apply_tokens(_, _)
apply_tokens(frame, toks) ==
    IF toks = <<>> THEN Returned(frame)
    ELSE LET step == apply_token(frame, Head(toks))
         IN  IF step.err # NoError THEN step ELSE apply_tokens(step.table, Tail(toks))
\* apply_filters, lines 124-141
apply_filters(frame, expr) ==
    IF expr = <<>> THEN Returned(frame) ELSE apply_tokens(frame, split(expr, ";"))

\* filter_ok, lines 33-44, with its ValueError
filter_ok_call(frame) ==
    IF cols_need \subseteq frame.cols THEN Returned(filter_ok(frame))
    ELSE Raised(Error("ValueError", cols_need \ frame.cols))

\* a second call on what the first returned
Again(first, Call(_)) == IF first.err # NoError THEN first ELSE Call(first.table)


\* ---- the filters on their own: bounded tables and expressions ------------
MaxFilterRows == 2
MaxTokens == 2

FilterUniverse ==
    << SimdRow(KeyA, 8, 0, 1, P1, "GiBps"), SimdRow(KeyA, 8, 1, 1, P2, "GiBps"),
       SimdRow(KeyB, 8, 0, 0, P1, "GiBps"), SimdRow(KeyD, 9, 0, 1, P2, "GiBps") >>
FilterDropped == {{}, {"stride"}, {"verified", "misalign"}, {"gflops", "n"}}
FilterTables ==
    {Table(SimdCols \ d, [i \in 1..Len(s) |-> [c \in SimdCols \ d |-> FilterUniverse[s[i]][c]]]) :
        s \in Picks(Len(FilterUniverse), MaxFilterRows), d \in FilterDropped}

\* the tokens of an expression: what each asks for, and its text
Token(kind, key, val, text) == [kind |-> kind, key |-> key, val |-> val, text |-> text]
Tokens ==
    { Token("kv", "stride", <<"1">>, <<"s", "t", "r", "i", "d", "e", "=", "1">>),
      Token("kv", "Stride", <<"1">>, <<" ", "S", "t", "r", "i", "d", "e", " ", "=", " ", "1", " ">>),
      Token("kv", "kernel", <<"a", "x", "p", "y">>,
            <<"k", "e", "r", "n", "e", "l", "=", "a", "x", "p", "y">>),
      Token("kv", "gflops", <<"1", ".", "0">>, <<"g", "f", "l", "o", "p", "s", "=", "1", ".", "0">>),
      Token("kv", "gflops", <<"2">>, <<"g", "f", "l", "o", "p", "s", "=", "2">>),
      Token("kv", "foo", <<"1">>, <<"f", "o", "o", "=", "1">>),
      Token("kv", "n", <<Superscript2>>, <<"n", "=", Superscript2>>),
      Token("bare", "stride", <<>>, <<"s", "t", "r", "i", "d", "e">>),
      Token("empty", "", <<>>, <<" ">>) }
\* the expression that lists the tokens, separated by ";"
RECURSIVE Expr(_)
Expr(toks) ==
    IF toks = <<>> THEN <<>>
    ELSE IF Len(toks) = 1 THEN toks[1].text
    ELSE toks[1].text \o <<";">> \o Expr(Tail(toks))

InitFilter ==
    /\ pc = "start" /\ reduced = <<>>
    /\ simd_csv = NoFile /\ scalar_csv = NoFile /\ summary_csv = NoFile /\ csv = NoFile
    /\ scalar = NoTable /\ handles = <<>> /\ merged = <<>> /\ geo = NoTable
    /\ summary = NoTable /\ final = NoTable /\ calls = 0 /\ out = {} /\ err = NoError
    /\ df \in FilterTables
    /\ \/ /\ script = "apply_filters"
          /\ series \in UNION {[1..k -> Tokens] : k \in 0..MaxTokens}
          /\ args = <<Expr(series)>>
       \/ script = "filter_ok" /\ series = <<>> /\ args = NoArgs

\* apply_filters(df, expr)
ApplyFilters ==
    /\ script = "apply_filters" /\ pc = "start"
    /\ reduced' = [f \in {"once"} |-> apply_filters(df, args[1])]
    /\ pc' = "again"
    /\ UNCHANGED <<series, inputs, df, scalar, handles, merged, geo, summary, final, calls, out, err>>
\* apply_filters(apply_filters(df, expr), expr)
ApplyFiltersAgain ==
    /\ script = "apply_filters" /\ pc = "again"
    /\ reduced' = reduced @@ [f \in {"twice"} |->
                                 Again(reduced["once"], LAMBDA t : apply_filters(t, args[1]))]
    /\ pc' = "done"
    /\ UNCHANGED <<series, inputs, df, scalar, handles, merged, geo, summary, final, calls, out, err>>
\* filter_ok(df)
FilterOk ==
    /\ script = "filter_ok" /\ pc = "start"
    /\ reduced' = [f \in {"once"} |-> filter_ok_call(df)]
    /\ pc' = "again"
    /\ UNCHANGED <<series, inputs, df, scalar, handles, merged, geo, summary, final, calls, out, err>>
\* filter_ok(filter_ok(df))
FilterOkAgain ==
    /\ script = "filter_ok" /\ pc = "again"
    /\ reduced' = reduced @@ [f \in {"twice"} |-> Again(reduced["once"], filter_ok_call)]
    /\ pc' = "done"
    /\ UNCHANGED <<series, inputs, df, scalar, handles, merged, geo, summary, final, calls, out, err>>

NextFilter == ApplyFilters \/ ApplyFiltersAgain \/ FilterOk \/ FilterOkAgain

SpecFilter == InitFilter /\ [][NextFilter]_vars

\* ------------------------------------------------------------------------
\* make_roofline_report.py: from the command line to B_mem and P_peak
\* ------------------------------------------------------------------------
\* an option that was not given (argparse default None)
None == [k |-> "none", t |-> {}]

\* load_csv, lines 44-64: historical column names are renamed
load_csv_roofline(file) ==
    LET new(c) == CASE c \in {"simd_or_scalar", "Version"} -> "version"
                    [] c \in {"gflops_per_s", "Gflops"} -> "gflops"
                    [] c \in {"cycles_per_element", "CPE"} -> "cpe"
                    [] c \in {"bandwidth_gib_per_s", "GiBps", "gib_per_s"} -> "gibps"
                    [] OTHER -> c
        cols == {new(c) : c \in file.cols}
        old(c) == CHOOSE o \in file.cols : new(o) = c
    IN  Table(cols, [i \in 1..Len(file.rows) |-> [c \in cols |-> file.rows[i][old(c)]]])

\* lines 106-113: the column handles, resolved in the SIMD table
RoofField == [K |-> "kernel", D |-> "dtype", N |-> "n", S |-> "stride", M |-> "misalign",
              G |-> "gflops", C |-> "cpe"]
RoofHandles(cols) ==
    [h \in {"K", "D", "N", "S", "M", "G", "C", "B"} |->
        IF h = "B" THEN pick_col(cols, <<"gibps">>)
        ELSE IF pick_col(cols, <<RoofField[h]>>) # NoCol THEN pick_col(cols, <<RoofField[h]>>)
        ELSE RoofField[h]]

\* lines 116-121: the metric columns that are present become numeric (the
\* integer columns n, stride, misalign are numeric as read)
RoofNumeric(t, h) ==
    Table(t.cols, [i \in 1..Len(t.rows) |->
        [c \in t.cols |-> IF c \in {h.G, h.C} THEN to_numeric(t.rows[i][c]) ELSE t.rows[i][c]]])

\* make_roofline_report.py, lines 146-150
region_by_n_roofline(n) ==
    CASE n <= 8192 -> "L1"
      [] n > 8192 /\ n <= 131072 -> "L2"
      [] n > 131072 /\ n <= 4194304 -> "LLC"
      [] OTHER -> "DRAM"

\* lines 67-83 and 100: arithmetic intensity of a (kernel, dtype), FLOPs per
\* byte; --stencil_flops replaces the stencil entry of FLOPs_PER_EL
FLOPs_PER_EL(k, stencil_flops) ==
    CASE k = "saxpy" -> Num(2) [] k = "dot" -> Num(2) [] k = "mul" -> Num(1)
      [] k = "stencil" -> stencil_flops [] OTHER -> Num(2)
BYTES_PER_EL(d, k) ==
    IF d \notin {"f32", "f64"} THEN 12
    ELSE IF k \notin {"saxpy", "dot", "mul", "stencil"} THEN 12
    ELSE (IF d = "f64" THEN 2 ELSE 1) * (IF k \in {"saxpy", "mul"} THEN 12 ELSE 8)
get_ai(kernel, dtype, stencil_flops) ==
    XDiv(FLOPs_PER_EL(kernel, stencil_flops), Num(BYTES_PER_EL(dtype, kernel)))

\* lines 152-159: the region and ai columns of the filtered table
RoofTag(t, h, regionize, stencil_flops) ==
    Table(t.cols \cup {"region", "ai"}, [i \in 1..Len(t.rows) |->
        [c \in t.cols \cup {"region", "ai"} |->
            CASE c = "region" -> (IF regionize THEN region_by_n_roofline(t.rows[i][h.N]) ELSE "ALL")
              [] c = "ai" -> get_ai(t.rows[i][h.K], t.rows[i][h.D], stencil_flops)
              [] OTHER -> t.rows[i][c]]])

\* Series.quantile(q): missing cells skipped, linear interpolation between
\* the two nearest order statistics
RECURSIVE InsertRat(_, _)
InsertRat(x, sorted) ==
    IF sorted = <<>> THEN <<x>>
    ELSE IF RatLess(x, Head(sorted)) THEN <<x>> \o sorted
    ELSE <<Head(sorted)>> \o InsertRat(x, Tail(sorted))
RECURSIVE SortRats(_)
SortRats(xs) == IF xs = <<>> THEN <<>> ELSE InsertRat(Head(xs), SortRats(Tail(xs)))
Interpolate(v, h) ==
    LET lo == h[1] \div h[2]
        q == IF lo + 2 > Len(v) THEN v[lo + 1]
             ELSE RatAdd(v[lo + 1], RatMul(RatSub(h, RatInt(lo)), RatSub(v[lo + 2], v[lo + 1])))
    IN  Frac(q[1], q[2])
quantile(col, q) ==
    LET kept == dropna(col)
        v == SortRats([i \in 1..Len(kept) |-> AsRat(kept[i])])
    IN  IF Len(v) = 0 THEN NaN ELSE Interpolate(v, RatMul(RatInt(Len(v) - 1), q))

\* lines 162-171
B_mem(t, h, bmem) ==
    IF bmem # None THEN bmem
    ELSE IF h.B # NoCol /\ h.B \in t.cols THEN quantile(Column(t.rows, h.B), Rat(95, 100))
    ELSE LET tmp == Filter(t.rows, LAMBDA r : Positive(r["ai"]) /\ r[h.N] >= 8000000)
         IN  IF Len(tmp) > 0
             THEN quantile([i \in 1..Len(tmp) |-> XDiv(tmp[i][h.G], tmp[i]["ai"])], Rat(1, 2))
             ELSE Num(30)

\* line 176
small(t, h) ==
    IF "region" \in t.cols THEN Filter(t.rows, LAMBDA r : r["region"] \in {"L1", "L2"})
    ELSE Filter(t.rows, LAMBDA r : r[h.N] <= 8192)
\* lines 173-177
P_peak(t, h, peak_gflops) ==
    IF peak_gflops # None THEN peak_gflops
    ELSE IF Len(small(t, h)) > 0
    THEN XMul(quantile(Column(small(t, h), h.G), Rat(98, 100)), Frac(115, 100))
    ELSE XMul(quantile(Column(t.rows, h.G), Rat(98, 100)), Frac(115, 100))

\* ---- the inputs of a run: data/simd.csv, data/scalar.csv and the options
\* <<--pick, --regionize, --peak_gflops, --bmem, --stencil_flops>>
MaxRoofRows == 3
PText == <<Unparsed, Num(1), Num(1)>>
KeyS == <<"stencil", "f32", 1>>
RoofUniverse ==
    << SimdRow(KeyA, 4096, 0, 1, P2, "GiBps"), SimdRow(KeyA, 65536, 0, 1, P1, "GiBps"),
       SimdRow(KeyA, 1048576, 0, 1, P10, "GiBps"), SimdRow(KeyC, 8388608, 0, 1, P9, "GiBps"),
       SimdRow(KeyB, 4096, 0, 1, P10, "GiBps"), SimdRow(KeyA, 4096, 0, 1, PText, "GiBps"),
       SimdRow(KeyS, 4096, 0, 1, P2, "GiBps") >>
RoofDropped == {{"GiBps"}, {"n"}, {"gflops"}, {"gflops", "GiBps"}, {"kernel"}}
\* files with every column and up to MaxRoofRows rows, and files of one row
\* that lack columns
RoofTables ==
    {File(SimdCols, [i \in 1..Len(s) |-> RoofUniverse[s[i]]]) :
        s \in Picks(Len(RoofUniverse), MaxRoofRows)}
    \cup {File(SimdCols \ d, <<[c \in SimdCols \ d |-> RoofUniverse[i][c]]>>) :
            i \in 1..Len(RoofUniverse), d \in RoofDropped}
DefaultPick == <<"s", "t", "r", "i", "d", "e", "=", "1">>
DefaultRoofArgs == <<DefaultPick, FALSE, None, None, Num(3)>>
RoofArgs ==
    { DefaultRoofArgs, <<DefaultPick, TRUE, None, None, Num(3)>>,
      <<<<>>, FALSE, None, None, Num(3)>>, <<<<>>, TRUE, None, None, Num(0)>>,
      <<DefaultPick, TRUE, Num(100), None, Num(3)>>, <<DefaultPick, FALSE, None, Num(30), Num(0)>>,
      <<DefaultPick, FALSE, Frac(51, 10), Num(30), Num(3)>> }
RoofScalar == File(SimdCols, <<RoofUniverse[1]>>)
InitRoof ==
    /\ Fresh /\ NoSeries
    /\ script = "roofline" /\ summary_csv = NoFile /\ csv = NoFile
    /\ \/ /\ scalar_csv = RoofScalar /\ simd_csv \in RoofTables /\ args \in RoofArgs
       \/ /\ scalar_csv \in {File(SimdCols \ {"dtype"}, <<>>), NoFile}
          /\ simd_csv \in {RoofScalar, NoFile} /\ args = DefaultRoofArgs
       \/ /\ scalar_csv = RoofScalar /\ simd_csv = NoFile /\ args = DefaultRoofArgs

\* lines 103-121: both files are read, the handles resolved, the types converted
RoofLoad ==
    /\ script = "roofline" /\ pc = "start"
    /\ IF ~simd_csv.exists \/ ~scalar_csv.exists
       THEN /\ Fail(Error("FileNotFoundError",
                          {IF ~simd_csv.exists THEN "data/simd.csv" ELSE "data/scalar.csv"}))
            /\ UNCHANGED <<df, scalar, handles>>
       ELSE LET simd == load_csv_roofline(simd_csv)
                sc == load_csv_roofline(scalar_csv)
                h == RoofHandles(simd.cols)
            IN  IF ~({h.K, h.D} \subseteq simd.cols)
                THEN Fail(KeyError1(<<h.K, h.D>>, simd.cols)) /\ UNCHANGED <<df, scalar, handles>>
                ELSE IF ~({h.K, h.D} \subseteq sc.cols)
                THEN /\ Fail(KeyError1(<<h.K, h.D>>, sc.cols))
                     /\ df' = RoofNumeric(simd, h) /\ handles' = h /\ scalar' = scalar
                ELSE /\ df' = RoofNumeric(simd, h) /\ scalar' = RoofNumeric(sc, h)
                     /\ handles' = h /\ pc' = "filter" /\ err' = err
    /\ UNCHANGED <<series, reduced, inputs, merged, geo, summary, final, calls, out>>

\* line 143: simd_f = apply_filters(simd, args.pick)
RoofFilter ==
    /\ script = "roofline" /\ pc = "filter"
    /\ LET r == apply_filters(df, args[1])
       IN  IF r.err # NoError THEN Fail(r.err) /\ df' = df
           ELSE df' = r.table /\ pc' = "region" /\ err' = err
    /\ UNCHANGED <<series, reduced, inputs, scalar, handles, merged, geo, summary, final, calls, out>>

\* lines 152-159: region and ai
RoofRegion ==
    /\ script = "roofline" /\ pc = "region"
    /\ IF args[2] /\ handles.N \notin df.cols
       THEN Fail(KeyError1(<<handles.N>>, df.cols)) /\ df' = df
       ELSE df' = RoofTag(df, handles, args[2], args[5]) /\ pc' = "bmem" /\ err' = err
    /\ UNCHANGED <<series, reduced, inputs, scalar, handles, merged, geo, summary, final, calls, out>>

\* lines 162-171
RoofBandwidth ==
    /\ script = "roofline" /\ pc = "bmem"
    /\ IF args[4] = None /\ ~(handles.B # NoCol /\ handles.B \in df.cols)
          /\ ~({handles.N, handles.G} \subseteq df.cols)
       THEN Fail(KeyError1(<<handles.N, handles.G>>, df.cols)) /\ reduced' = reduced
       ELSE /\ reduced' = [v \in {"B_mem"} |-> B_mem(df, handles, args[4])]
            /\ pc' = "peak" /\ err' = err
    /\ UNCHANGED <<series, inputs, df, scalar, handles, merged, geo, summary, final, calls, out>>

\* lines 173-177
RoofPeak ==
    /\ script = "roofline" /\ pc = "peak"
    /\ IF args[3] = None /\ handles.G \notin df.cols
       THEN Fail(KeyError1(<<handles.G>>, df.cols)) /\ reduced' = reduced
       ELSE /\ reduced' = reduced @@ [v \in {"P_peak"} |-> P_peak(df, handles, args[3])]
            /\ pc' = "aggregate" /\ err' = err
    /\ UNCHANGED <<series, inputs, df, scalar, handles, merged, geo, summary, final, calls, out>>

\* geomean, lines 36-42: pd.to_numeric(errors="coerce") first
geomean_roofline(col) == geomean([i \in 1..Len(col) |-> to_numeric(col[i])])
\* lines 180-184: one row per (kernel, dtype, region)
RoofGrpRow(t, h, g) ==
    LET rows == GroupRows(t.rows, <<h.K, h.D, "region">>, g)
    IN  [c \in {h.K, h.D, "region"} |-> rows[1][c]]
        @@ [c \in {"gmean_gflops", "gmean_ai"} |->
               IF c = "gmean_gflops" THEN geomean_roofline(Column(rows, h.G))
               ELSE geomean_roofline(Column(rows, "ai"))]
        @@ [c \in {"samples"} |-> count(Column(rows, h.G))]
grp_roofline(t, h) ==
    LET keys == GroupKeysBy(t.rows, <<h.K, h.D, "region">>)
    IN  Table({h.K, h.D, "region", "gmean_gflops", "gmean_ai", "samples"},
              [i \in 1..Len(keys) |-> RoofGrpRow(t, h, keys[i])])

\* a < b on doubles (false when either is nan)
Less(a, b) == ~IsNaN(a) /\ ~IsNaN(b) /\ a # b /\ Sign(XSub(b, a)) > 0
\* Python's min(a, b): b when b < a, else a
min(a, b) == IF Less(b, a) THEN b ELSE a
\* (the cap without the compute roof)
predict_cap_memory_only(ai, P, B) ==
    IF ~IsFin(ai) \/ ~Less(Num(0), ai) THEN NaN ELSE XMul(B, ai)
\* lines 222-225
predict_cap(ai, P, B) ==
    IF ~IsFin(ai) \/ ~Less(Num(0), ai) THEN NaN ELSE min(P, XMul(B, ai))
\* line 228
bottleneck(ai, P, B) ==
    IF Less(XMul(ai, B), XMul(P, Frac(98, 100))) THEN "Memory-bound" ELSE "Compute-bound"
\* lines 227-229
classify(t, P, B) ==
    Table(t.cols \cup {"pred_cap", "bottleneck", "util_%"}, [i \in 1..Len(t.rows) |->
        t.rows[i] @@ [c \in {"pred_cap", "bottleneck", "util_%"} |->
            CASE c = "pred_cap" -> predict_cap(t.rows[i]["gmean_ai"], P, B)
              [] c = "bottleneck" -> bottleneck(t.rows[i]["gmean_ai"], P, B)
              [] OTHER -> XDiv(XScale(t.rows[i]["gmean_gflops"], RatInt(100)),
                               predict_cap(t.rows[i]["gmean_ai"], P, B))]])

\* plot_roofline, lines 187-212: a chart is saved unless no point has a
\* finite gmean_ai
RoofCharts(t, h) ==
    LET drawn(rows) == \E i \in 1..Len(rows) : IsFin(rows[i]["gmean_ai"])
    IN  (IF drawn(t.rows) THEN {"plots/roofline/roofline_overview.png"} ELSE {})
        \cup {"plots/roofline/roofline_" \o t.rows[i][h.K] \o ".png" :
                i \in {j \in 1..Len(t.rows) :
                          drawn(Filter(t.rows, LAMBDA r : r[h.K] = t.rows[j][h.K]))}}
\* lines 249-252: the table of the report, null cells printed empty
RoofCell(x) == IF IsNaN(x) THEN [text |-> "", value |-> NaN, digits |-> 0] ELSE Numeral(x, 3)
show(t, h) ==
    Table(t.cols, [i \in 1..Len(t.rows) |->
        [c \in t.cols |->
            IF c \in {"gmean_ai", "gmean_gflops", "pred_cap", "util_%"}
            THEN RoofCell(t.rows[i][c]) ELSE t.rows[i][c]]])

\* lines 180-184
RoofAggregate ==
    /\ script = "roofline" /\ pc = "aggregate"
    /\ IF handles.G \notin df.cols
       THEN Fail(KeyError1(<<handles.G>>, df.cols)) /\ summary' = summary
       ELSE summary' = grp_roofline(df, handles) /\ pc' = "plot" /\ err' = err
    /\ UNCHANGED <<series, reduced, inputs, df, scalar, handles, merged, geo, final, calls, out>>

\* lines 215-219
RoofPlot ==
    /\ script = "roofline" /\ pc = "plot"
    /\ out' = {[file |-> f, table |-> summary] : f \in RoofCharts(summary, handles)}
    /\ pc' = "classify"
    /\ UNCHANGED <<series, reduced, inputs, df, scalar, handles, merged, geo, summary, final, calls, err>>

\* lines 227-229
RoofClassify ==
    /\ script = "roofline" /\ pc = "classify"
    /\ summary' = classify(summary, reduced["P_peak"], reduced["B_mem"])
    /\ pc' = "report"
    /\ UNCHANGED <<series, reduced, inputs, df, scalar, handles, merged, geo, final, calls, out, err>>

\* lines 232-260
RoofReport ==
    /\ script = "roofline" /\ pc = "report"
    /\ final' = show(summary, handles)
    /\ out' = out \cup {[file |-> "reports/roofline.md", table |-> final']}
    /\ pc' = "done"
    /\ UNCHANGED <<series, reduced, inputs, df, scalar, handles, merged, geo, summary, calls, err>>

NextRoof ==
    \/ RoofLoad \/ RoofFilter \/ RoofRegion \/ RoofBandwidth \/ RoofPeak
    \/ RoofAggregate \/ RoofPlot \/ RoofClassify \/ RoofReport

SpecRoof == InitRoof /\ [][NextRoof]_vars

\* ------------------------------------------------------------------------
\* region_by_n of make_dtype_report.py and of make_roofline_report.py applied
\* to one problem size
\* ------------------------------------------------------------------------
MaxOffset == 5
RegionEdges == {0, 8192, 131072, 4194304, 1073741824}
RegionSizes == {e + d : e \in RegionEdges, d \in (-MaxOffset)..MaxOffset}
InitRegion ==
    /\ Fresh /\ reduced = <<>>
    /\ script = "region_by_n" /\ args = NoArgs
    /\ NoSimdInputs /\ csv = NoFile
    /\ series \in {<<n>> : n \in RegionSizes}
\* make_dtype_report.py, line 114: merged[N].apply(region_by_n), one cell
RegionDtype ==
    /\ script = "region_by_n" /\ "dtype" \notin DOMAIN reduced
    /\ reduced' = reduced @@ [f \in {"dtype"} |-> region_by_n(series[1])]
    /\ pc' = IF "roofline" \in DOMAIN reduced THEN "done" ELSE pc
    /\ UNCHANGED <<series, inputs, df, scalar, handles, merged, geo, summary, final, calls, out, err>>
\* make_roofline_report.py, line 154: simd_f[N].apply(region_by_n), one cell
RegionRoofline ==
    /\ script = "region_by_n" /\ "roofline" \notin DOMAIN reduced
    /\ reduced' = reduced @@ [f \in {"roofline"} |-> region_by_n_roofline(series[1])]
    /\ pc' = IF "dtype" \in DOMAIN reduced THEN "done" ELSE pc
    /\ UNCHANGED <<series, inputs, df, scalar, handles, merged, geo, summary, final, calls, out, err>>
NextRegion == RegionDtype \/ RegionRoofline
SpecRegion == InitRegion /\ [][NextRegion]_vars

\* ------------------------------------------------------------------------
\* make_tail_report.py on samples of several sizes and dtypes
\* ------------------------------------------------------------------------
MaxTailRows == 2
TailSizes == {0, 8, 9, 12}
TailUniverse ==
    SetToSeq({SimdRow(<<"axpy", d, 1>>, n, f[1], f[2], P1, "GiBps") :
                 d \in {"f16", "f32", "f64"}, n \in TailSizes, f \in {<<0, 1>>, <<1, 1>>, <<0, 0>>}})
TailTables ==
    {File(SimdCols, [i \in 1..Len(s) |-> TailUniverse[s[i]]]) :
        s \in Picks(Len(TailUniverse), MaxTailRows)}
InitTailFlag ==
    /\ Fresh /\ NoSeries /\ DefaultArgs
    /\ script = "tail" /\ scalar_csv = NoFile /\ summary_csv = NoFile
    /\ simd_csv \in TailTables
NextTail == TailLoad \/ TailGeo \/ TailDeltaSummary \/ TailAppend \/ TailSave
SpecTail == InitTailFlag /\ [][NextTail]_vars

\* ------------------------------------------------------------------------
\* make_stride_report.pick_three_Ns on a frame of up to MaxPickRows rows
\* ------------------------------------------------------------------------
MaxPickRows == 4
PickUniverse ==
    SetToSeq({[c \in {"dtype", "n"} |-> IF c = "dtype" THEN d ELSE n] :
                 d \in {"f32", "f64"}, n \in {16, 64, 256, 1024, 4096}})
PickFrames ==
    {Table({"dtype", "n"}, [i \in 1..Len(s) |-> PickUniverse[s[i]]]) :
        s \in Picks(Len(PickUniverse), MaxPickRows)}
InitPick ==
    /\ pc = "start" /\ NoSeries /\ NoSimdInputs /\ csv = NoFile /\ args = NoArgs
    /\ scalar = NoTable /\ handles = <<>> /\ merged = <<>> /\ geo = NoTable
    /\ summary = NoTable /\ final = NoTable /\ calls = 0 /\ out = {} /\ err = NoError
    /\ script = "pick_three_Ns"
    /\ df \in PickFrames
\* lines 80-94: the dict of the picks per dtype
PickThreeNs ==
    /\ script = "pick_three_Ns" /\ pc = "start"
    /\ reduced' = [dt \in {df.rows[i]["dtype"] : i \in 1..Len(df.rows)} |-> pick_three_Ns(df, dt)]
    /\ pc' = "done"
    /\ UNCHANGED <<series, inputs, df, scalar, handles, merged, geo, summary, final, calls, out, err>>
NextPick == PickThreeNs
SpecPick == InitPick /\ [][NextPick]_vars

\* ------------------------------------------------------------------------
\* make_stride_report.normalize_to_stride1 on a frame of up to MaxNormRows rows
\* ------------------------------------------------------------------------
MaxNormRows == 3
NormRow(n, stride, g) ==
    [c \in cols_need |->
        CASE c = "kernel" -> "axpy" [] c = "dtype" -> "f32" [] c = "n" -> n
          [] c = "stride" -> stride [] c = "gflops" -> g [] OTHER -> Num(1)]
NormUniverse ==
    SetToSeq({NormRow(n, 1, g) : n \in {8, 16}, g \in {Num(2), Num(4), Num(0), NaN, PosInf}}
             \cup {NormRow(n, 2, g) : n \in {8, 16}, g \in {Num(4), NaN}})
InitNorm ==
    /\ pc = "start" /\ NoSeries /\ NoSimdInputs /\ csv = NoFile
    /\ scalar = NoTable /\ handles = <<>> /\ merged = <<>> /\ geo = NoTable
    /\ summary = NoTable /\ final = NoTable /\ calls = 0 /\ out = {} /\ err = NoError
    /\ script = "normalize_to_stride1" /\ args = <<"gflops">>
    /\ \E j \in 0..MaxNormRows : \E s \in [1..j -> 1..Len(NormUniverse)] :
          df = Table(cols_need, [i \in 1..j |-> NormUniverse[s[i]]])
\* lines 47-55; groupby.apply of a frame without rows returns a frame with or
\* without the new column, depending on the pandas release
NormalizeToStride1 ==
    /\ script = "normalize_to_stride1" /\ pc = "start"
    /\ \/ geo' = normalize_to_stride1(df, args[1])
       \/ df.rows = <<>> /\ geo' = Table(df.cols, <<>>)
    /\ pc' = "done"
    /\ UNCHANGED <<series, reduced, inputs, df, scalar, handles, merged, summary, final, calls, out, err>>
NextNorm == NormalizeToStride1
SpecNorm == InitNorm /\ [][NextNorm]_vars

\* ------------------------------------------------------------------------
\* plot.py: doubles that involve eps
\* ------------------------------------------------------------------------
\* eps = 1e-12 is far below every difference of two values of the bounded
\* tables, so a finite value is kept exactly as a quotient n / d of two
\* polynomials in eps (rational coefficients, lowest degree first, d > 0)
\* and the sign of a polynomial is the sign of its first non-zero coefficient
Coef(p, i) == IF i \in 1..Len(p) THEN p[i] ELSE RatInt(0)
PolyAdd(p, q) ==
    [i \in 1..(IF Len(p) > Len(q) THEN Len(p) ELSE Len(q)) |-> RatAdd(Coef(p, i), Coef(q, i))]
RECURSIVE Conv(_, _, _, _)
Conv(p, q, i, j) ==
    IF j = 0 THEN RatInt(0)
    ELSE RatAdd(RatMul(Coef(p, j), Coef(q, i - j + 1)), Conv(p, q, i, j - 1))
PolyMul(p, q) == [i \in 1..(Len(p) + Len(q) - 1) |-> Conv(p, q, i, i)]
PolyNeg(p) == [i \in 1..Len(p) |-> RatNeg(p[i])]
RECURSIVE PolySign(_)
PolySign(p) ==
    IF p = <<>> THEN 0
    ELSE IF p[1][1] > 0 THEN 1
    ELSE IF p[1][1] < 0 THEN -1
    ELSE PolySign(Tail(p))

EFin(n, d) == [k |-> "fin", n |-> n, d |-> d]
ESpecial(k) == [k |-> k, n |-> <<>>, d |-> <<>>]
\* a table cell or a quotient of two cells as such a value
E(x) == IF IsFin(x) THEN EFin(<<AsRat(x)>>, <<RatInt(1)>>) ELSE ESpecial(x.k)
\* line 24
eps == EFin(<<RatInt(0), RatInt(1)>>, <<RatInt(1)>>)

ESign(x) ==
    CASE x.k = "pinf" -> 1
      [] x.k = "ninf" -> -1
      [] OTHER -> PolySign(x.n)
ENeg(x) ==
    CASE x.k = "pinf" -> ESpecial("ninf")
      [] x.k = "ninf" -> ESpecial("pinf")
      [] x.k = "fin" -> EFin(PolyNeg(x.n), x.d)
      [] OTHER -> x
EAdd(x, y) ==
    CASE x.k = "nan" \/ y.k = "nan" -> ESpecial("nan")
      [] x.k # "fin" /\ y.k # "fin" -> IF x.k = y.k THEN x ELSE ESpecial("nan")
      [] x.k # "fin" -> x
      [] y.k # "fin" -> y
      [] OTHER -> EFin(PolyAdd(PolyMul(x.n, y.d), PolyMul(y.n, x.d)), PolyMul(x.d, y.d))
ESub(x, y) == EAdd(x, ENeg(y))
EMul(x, y) ==
    CASE x.k = "nan" \/ y.k = "nan" -> ESpecial("nan")
      [] x.k # "fin" \/ y.k # "fin" ->
            IF ESign(x) * ESign(y) = 0 THEN ESpecial("nan")
            ELSE IF ESign(x) * ESign(y) > 0 THEN ESpecial("pinf") ELSE ESpecial("ninf")
      [] OTHER -> EFin(PolyMul(x.n, y.n), PolyMul(x.d, y.d))
\* numpy's true division: x / 0 is an infinity, 0 / 0 is nan
EDiv(x, y) ==
    CASE x.k = "nan" \/ y.k = "nan" -> ESpecial("nan")
      [] x.k # "fin" /\ y.k # "fin" -> ESpecial("nan")
      [] x.k # "fin" -> IF ESign(x) * (IF ESign(y) < 0 THEN -1 ELSE 1) > 0
                        THEN ESpecial("pinf") ELSE ESpecial("ninf")
      [] y.k # "fin" -> EFin(<<RatInt(0)>>, <<RatInt(1)>>)
      [] ESign(y) = 0 -> IF ESign(x) = 0 THEN ESpecial("nan")
                         ELSE IF ESign(x) > 0 THEN ESpecial("pinf") ELSE ESpecial("ninf")
      [] ESign(y) > 0 -> EFin(PolyMul(x.n, y.d), PolyMul(x.d, y.n))
      [] OTHER -> EFin(PolyNeg(PolyMul(x.n, y.d)), PolyNeg(PolyMul(x.d, y.n)))
\* a < b; every comparison with nan is false
ELess(a, b) ==
    CASE a.k = "nan" \/ b.k = "nan" -> FALSE
      [] a.k = b.k /\ a.k # "fin" -> FALSE
      [] a.k = "ninf" \/ b.k = "pinf" -> TRUE
      [] a.k = "pinf" \/ b.k = "ninf" -> FALSE
      [] OTHER -> ESign(ESub(b, a)) > 0
EZero == EFin(<<RatInt(0)>>, <<RatInt(1)>>)
\* np.maximum, np.minimum: nan propagates
maximum(a, b) ==
    IF a.k = "nan" \/ b.k = "nan" THEN ESpecial("nan") ELSE IF ELess(a, b) THEN b ELSE a
minimum(a, b) ==
    IF a.k = "nan" \/ b.k = "nan" THEN ESpecial("nan") ELSE IF ELess(b, a) THEN b ELSE a
\* np.clip(a, a_min, a_max)
clip(a, a_min, a_max) == minimum(maximum(a, a_min), a_max)
isfinite(a) == a.k = "fin"

\* ------------------------------------------------------------------------
\* plot.py
\* ------------------------------------------------------------------------
\* line 15: key
plot_key == <<"kernel", "dtype", "n", "stride", "misalign">>
PlotTimes == <<"time_ns_med", "time_ns_p05", "time_ns_p95">>
PlotCols == Range(plot_key) \cup Range(PlotTimes) \cup {"gflops"}
\* lines 18-21: a row of m, the columns of both sides suffixed, and its speedup
MergedRow(l, r) ==
    [c \in Range(plot_key) |-> l[c]]
    @@ [c \in {"gflops_sc", "time_ns_med_sc", "time_ns_p05_sc", "time_ns_p95_sc"} |->
            CASE c = "gflops_sc" -> l["gflops"]
              [] c = "time_ns_med_sc" -> l["time_ns_med"]
              [] c = "time_ns_p05_sc" -> l["time_ns_p05"]
              [] OTHER -> l["time_ns_p95"]]
    @@ [c \in {"gflops_si", "time_ns_med_si", "time_ns_p05_si", "time_ns_p95_si"} |->
            CASE c = "gflops_si" -> r["gflops"]
              [] c = "time_ns_med_si" -> r["time_ns_med"]
              [] c = "time_ns_p05_si" -> r["time_ns_p05"]
              [] OTHER -> r["time_ns_p95"]]
    @@ [c \in {"speedup"} |-> XDiv(l["time_ns_med"], r["time_ns_med"])]
merge_sc_si(sc, si) ==
    LET pairs == MergePairs(sc, si, plot_key)
    IN  [i \in 1..Len(pairs) |-> MergedRow(pairs[i][1], pairs[i][2])]

\* lines 30-47: the three cache boundaries in elements
bpe(kernel, dtype) ==
    CASE kernel \in {"saxpy", "mul"} -> (IF dtype = "f32" THEN 12 ELSE 24)
      [] OTHER -> (IF dtype = "f32" THEN 8 ELSE 16)
add_cache_lines(dtype, kernel) ==
    LET L1 == 48 * 1024
        L2 == 2 * 1024 * 1024
        L3 == 36 * 1024 * 1024
        max1(v) == IF v < 1 THEN 1 ELSE v
    IN  <<max1(L1 \div bpe(kernel, dtype)), max1(L2 \div bpe(kernel, dtype)),
          max1(L3 \div bpe(kernel, dtype))>>

\* lines 68-73 and 140-151: the stride-1 aligned rows of a kernel and dtype by n
plot_rows_of(rows, kernel, dtype) ==
    SortRows(Filter(rows, LAMBDA r : /\ r["kernel"] = kernel /\ r["dtype"] = dtype
                                     /\ r["stride"] = 1 /\ r["misalign"] = 0), <<"n">>)
\* lines 86-89 and 172-175: clip at 0, then the median in place of a value
\* that is not finite
cleanup(y, y_med) ==
    LET c == clip(y, EZero, ESpecial("pinf")) IN IF isfinite(c) THEN c ELSE y_med
\* lines 77-108: the point of a row of m
SpeedupPoint(r) ==
    LET y_med == E(r["speedup"])
        y_low == cleanup(EDiv(E(r["time_ns_p95_sc"]), EAdd(E(r["time_ns_p05_si"]), eps)), y_med)
        y_high == cleanup(EDiv(E(r["time_ns_p05_sc"]), EAdd(E(r["time_ns_p95_si"]), eps)), y_med)
        lo == minimum(y_low, y_high)
        hi == maximum(y_low, y_high)
    IN  [n |-> r["n"], y_med |-> y_med, y_low |-> lo, y_high |-> hi,
         yerr_low |-> maximum(EZero, ESub(y_med, lo)),
         yerr_high |-> maximum(EZero, ESub(hi, y_med))]
PointCols == {"n", "y_med", "y_low", "y_high", "yerr_low", "yerr_high"}
plot_speedup(m, kernel, dtype) ==
    LET rows == plot_rows_of(m, kernel, dtype)
    IN  Table(PointCols, [i \in 1..Len(rows) |-> SpeedupPoint(rows[i])])
\* lines 153-194: the point of a row of sc or si
GflopsPoint(r) ==
    LET y == E(r["gflops"])
        y_low == cleanup(EDiv(EMul(y, E(r["time_ns_med"])), EAdd(E(r["time_ns_p95"]), eps)), y)
        y_high == cleanup(EDiv(EMul(y, E(r["time_ns_med"])), EAdd(E(r["time_ns_p05"]), eps)), y)
    IN  [n |-> r["n"], y_med |-> y, y_low |-> y_low, y_high |-> y_high,
         yerr_low |-> maximum(EZero, ESub(y, y_low)),
         yerr_high |-> maximum(EZero, ESub(y_high, y))]
plot_gflops(rows, kernel, dtype) ==
    LET d == plot_rows_of(rows, kernel, dtype)
    IN  Table(PointCols, [i \in 1..Len(d) |-> GflopsPoint(d[i])])

\* lines 240-241
PlotKernels == <<"saxpy", "dot", "mul", "stencil">>
PlotDtypes == <<"f32", "f64">>

MaxPlotRows == 2
\* time profiles <<p05, med, p95, gflops>>: ordered, swapped, all zero, equal,
\* a missing p05, a zero p05
PlotRow(k, dt, n, stride, prof) ==
    [kernel |-> k, dtype |-> dt, n |-> n, stride |-> stride, misalign |-> 0,
     time_ns_p05 |-> prof[1], time_ns_med |-> prof[2], time_ns_p95 |-> prof[3],
     gflops |-> prof[4]]
ScProfiles == {<<Num(1), Num(2), Num(4), Num(1)>>, <<Num(4), Num(2), Num(1), Num(1)>>,
               <<Num(0), Num(0), Num(0), Num(1)>>, <<Num(2), Num(2), Num(2), Num(1)>>}
SiProfiles == {<<Num(1), Num(1), Num(2), Num(2)>>, <<Num(2), Num(1), Num(1), Num(2)>>,
               <<Num(0), Num(0), Num(0), Num(2)>>, <<NaN, Num(1), Num(2), Num(2)>>,
               <<Num(0), Num(1), Num(2), Num(2)>>}
ScUniverse ==
    SetToSeq({PlotRow("dot", "f32", 8, 1, p) : p \in ScProfiles}
             \cup {PlotRow("dot", "f32", 16, 1, <<Num(1), Num(2), Num(4), Num(1)>>),
                   PlotRow("dot", "f32", 16, 2, <<Num(1), Num(2), Num(4), Num(1)>>),
                   PlotRow("saxpy", "f64", 16, 1, <<Num(1), Num(2), Num(4), Num(1)>>)})
SiUniverse ==
    SetToSeq({PlotRow("dot", "f32", 8, 1, p) : p \in SiProfiles}
             \cup {PlotRow("dot", "f32", 16, 1, <<Num(1), Num(1), Num(2), Num(2)>>),
                   PlotRow("dot", "f32", 16, 2, <<Num(1), Num(1), Num(2), Num(2)>>),
                   PlotRow("saxpy", "f64", 16, 1, <<Num(2), Num(1), Num(1), Num(2)>>)})
PlotTables(universe) ==
    UNION {{File(PlotCols, [i \in 1..j |-> universe[s[i]]]) : s \in [1..j -> 1..Len(universe)]} :
               j \in 0..MaxPlotRows}

InitPlot ==
    /\ pc = "start" /\ NoSeries /\ summary_csv = NoFile /\ csv = NoFile
    /\ df = NoTable /\ scalar = NoTable /\ handles = <<>> /\ merged = <<>> /\ geo = NoTable
    /\ summary = NoTable /\ final = NoTable /\ calls = 0 /\ out = {} /\ err = NoError
    /\ script = "plot" /\ args = <<>>
    /\ scalar_csv \in PlotTables(ScUniverse)
    /\ simd_csv \in PlotTables(SiUniverse)

\* lines 11-21
PlotMerge ==
    /\ script = "plot" /\ pc = "start"
    /\ merged' = merge_sc_si(scalar_csv.rows, simd_csv.rows)
    /\ handles' = <<1, 1>>
    /\ pc' = "speedup"
    /\ UNCHANGED <<series, reduced, inputs, df, scalar, geo, summary, final, calls, out, err>>
\* line 242, lines 67-133: the frame in df, the plotted points in summary
PlotSpeedup ==
    /\ script = "plot" /\ pc = "speedup"
    /\ LET k == PlotKernels[handles[1]]
           dt == PlotDtypes[handles[2]]
       IN  /\ df' = Table(DOMAIN MergedRow(ScUniverse[1], SiUniverse[1]), plot_rows_of(merged, k, dt))
           /\ summary' = plot_speedup(merged, k, dt)
           /\ out' = IF df'.rows = <<>> THEN out
                     ELSE out \cup {[file |-> "plots/speedup_" \o k \o "_" \o dt \o ".png",
                                     table |-> summary', lines |-> add_cache_lines(dt, k)]}
    /\ pc' = "gflops"
    /\ UNCHANGED <<series, reduced, inputs, scalar, handles, merged, geo, final, calls, err>>
\* line 243, lines 139-234 (scalar points in geo, SIMD points in final), and
\* the step of the loop of lines 240-241
PlotGflops ==
    /\ script = "plot" /\ pc = "gflops"
    /\ LET k == PlotKernels[handles[1]]
           dt == PlotDtypes[handles[2]]
       IN  /\ geo' = plot_gflops(scalar_csv.rows, k, dt)
           /\ final' = plot_gflops(simd_csv.rows, k, dt)
           /\ out' = IF geo'.rows = <<>> \/ final'.rows = <<>> THEN out
                     ELSE out \cup {[file |-> "plots/gflops_" \o k \o "_" \o dt \o ".png",
                                     table |-> Table(PointCols, geo'.rows \o final'.rows),
                                     lines |-> add_cache_lines(dt, k)]}
    /\ IF handles[2] < Len(PlotDtypes) THEN handles' = <<handles[1], handles[2] + 1>> /\ pc' = "speedup"
       ELSE IF handles[1] < Len(PlotKernels) THEN handles' = <<handles[1] + 1, 1>> /\ pc' = "speedup"
       ELSE handles' = handles /\ pc' = "done"
    /\ UNCHANGED <<series, reduced, inputs, df, scalar, merged, summary, calls, err>>
NextPlot == PlotMerge \/ PlotSpeedup \/ PlotGflops
SpecPlot == InitPlot /\ [][NextPlot]_vars

\* ------------------------------------------------------------------------
\* sec5/parse_loaded.py
\* ------------------------------------------------------------------------
\* s[a-1:b] of a text: the characters a..b that exist
slice(s, a, b) ==
    IF a > b \/ a > Len(s) THEN "" ELSE SubSeq(s, a, IF b > Len(s) THEN Len(s) ELSE b)
\* the character of a text at a position ("" past its end)
Ch(s, i) == slice(s, i, i)
UpperCase == "ABCDEFGHIJKLMNOPQRSTUVWXYZ"
LowerCase == "abcdefghijklmnopqrstuvwxyz"
ToLower ==
    [c \in {Ch(UpperCase, i) : i \in 1..Len(UpperCase)} |->
        Ch(LowerCase, CHOOSE i \in 1..Len(UpperCase) : Ch(UpperCase, i) = c)]
RECURSIVE lower(_)
\* str.lower()
lower(s) ==
    IF s = "" THEN ""
    ELSE (IF Ch(s, 1) \in DOMAIN ToLower THEN ToLower[Ch(s, 1)] ELSE Ch(s, 1))
         \o lower(slice(s, 2, Len(s)))
\* sub in s
contains(s, sub) == \E i \in 1..(Len(s) - Len(sub) + 1) : slice(s, i, i + Len(sub) - 1) = sub
RECURSIVE replace(_, _, _)
\* str.replace(old, new) for a one-character old
replace(s, old, new) ==
    IF s = "" THEN ""
    ELSE (IF Ch(s, 1) = old THEN new ELSE Ch(s, 1)) \o replace(slice(s, 2, Len(s)), old, new)
RECURSIVE splitlines(_)
\* str.splitlines() of a text whose only line boundary is "\n"
splitlines(s) ==
    IF s = "" THEN <<>>
    ELSE IF \E i \in 1..Len(s) : Ch(s, i) = "\n"
    THEN LET i == CHOOSE k \in 1..Len(s) : Ch(s, k) = "\n" /\ \A j \in 1..(k - 1) : Ch(s, j) # "\n"
         IN  <<slice(s, 1, i - 1)>> \o splitlines(slice(s, i + 1, Len(s)))
    ELSE <<s>>
\* not ln.strip()
IsBlank(ln) == \A i \in 1..Len(ln) : Ch(ln, i) = " "

DigitChars == "0123456789"
Digits == {Ch(DigitChars, i) : i \in 1..Len(DigitChars)}
IsDigit(c) == c \in Digits
RECURSIVE DigitsEnd(_, _)
\* the position after the digits that start at i
DigitsEnd(s, i) == IF IsDigit(Ch(s, i)) THEN DigitsEnd(s, i + 1) ELSE i
\* [0-9]+(?:\.[0-9]+)? at a digit i: the position after the match
NumberEnd(s, i) ==
    LET e == DigitsEnd(s, i)
    IN  IF Ch(s, e) = "." /\ IsDigit(Ch(s, e + 1)) THEN DigitsEnd(s, e + 1) ELSE e
RECURSIVE SkipSpace(_, _)
SkipSpace(s, i) == IF Ch(s, i) = " " THEN SkipSpace(s, i + 1) ELSE i
\* lines 8 and 9: the alternatives of the two unit groups, in their order
BwUnits == <<"gb/s", "gb/sec", "gbps", "mb/s", "mb/sec", "mbps">>
LtUnits == <<"ns", "us", "usec", "ms", "msec">>
UnitsAt(low, i, units) ==
    {k \in 1..Len(units) : slice(low, i, i + Len(units[k]) - 1) = units[k]}
MatchesAt(low, i, units) ==
    IsDigit(Ch(low, i)) /\ UnitsAt(low, SkipSpace(low, NumberEnd(low, i)), units) # {}
RECURSIVE FirstMatch(_, _, _)
\* the leftmost position of a match at or after i, 0 for none
FirstMatch(low, i, units) ==
    IF i > Len(low) THEN 0
    ELSE IF MatchesAt(low, i, units) THEN i
    ELSE FirstMatch(low, i + 1, units)
\* RE_BW.search(ln), RE_LT.search(ln) with re.I: the leftmost match, its
\* number and the first alternative that fits as its unit; None without one
search(s, units) ==
    LET low == lower(s)
        i == FirstMatch(low, 1, units)
        u == SkipSpace(low, NumberEnd(low, i))
        k == CHOOSE a \in UnitsAt(low, u, units) : \A b \in UnitsAt(low, u, units) : a <= b
    IN  IF i = 0 THEN None
        ELSE [val |-> slice(s, i, NumberEnd(low, i) - 1), unit |-> slice(s, u, u + Len(units[k]) - 1)]
RECURSIVE findall_from(_, _)
\* line 49: re.findall(r'[-+]?\d+(?:\.\d+)?', ln)
findall_from(s, i) ==
    IF i > Len(s) THEN <<>>
    ELSE IF Ch(s, i) \in {"-", "+"} /\ IsDigit(Ch(s, i + 1))
    THEN <<slice(s, i, NumberEnd(s, i + 1) - 1)>> \o findall_from(s, NumberEnd(s, i + 1))
    ELSE IF IsDigit(Ch(s, i))
    THEN <<slice(s, i, NumberEnd(s, i) - 1)>> \o findall_from(s, NumberEnd(s, i))
    ELSE findall_from(s, i + 1)
findall(s) == findall_from(s, 1)

RECURSIVE ParseDigits(_)
ParseDigits(s) ==
    IF s = "" THEN 0
    ELSE 10 * ParseDigits(slice(s, 1, Len(s) - 1))
         + (CHOOSE d \in 0..9 : Ch(DigitChars, d + 1) = Ch(s, Len(s)))
\* float(val) of a decimal numeral with an optional sign
float(val) ==
    LET neg == Ch(val, 1) = "-"
        body == IF Ch(val, 1) \in {"-", "+"} THEN slice(val, 2, Len(val)) ELSE val
        e == DigitsEnd(body, 1)
        whole == slice(body, 1, e - 1)
        frac == slice(body, e + 1, Len(body))
        q == Rat(ParseDigits(whole \o frac), IPow(10, Len(frac)))
    IN  IF neg THEN RatNeg(q) ELSE q
\* lines 11-16; unit is None or the text of the unit
to_gbps(val, unit, assume_mb) ==
    IF unit # None /\ unit.text # ""
    THEN (IF slice(lower(unit.text), 1, 2) = "mb" THEN RatDiv(float(val), RatInt(1000)) ELSE float(val))
    ELSE IF assume_mb THEN RatDiv(float(val), RatInt(1000)) ELSE float(val)
\* lines 18-26
to_ns(val, unit, assume_ns) ==
    IF unit # None /\ unit.text # ""
    THEN CASE lower(unit.text) = "ns" -> float(val)
           [] lower(unit.text) \in {"us", "usec"} -> RatMul(float(val), RatInt(1000))
           [] lower(unit.text) \in {"ms", "msec"} -> RatMul(float(val), RatInt(1000000))
           [] OTHER -> float(val)
    ELSE float(val)
Unit(text) == [k |-> "unit", t |-> {}, text |-> text]

\* lines 36-40: the index of the first line with both words, 0 for none
hdr_idx(lines) ==
    LET is_hdr(ln) == contains(lower(ln), "bandwidth") /\ contains(lower(ln), "latency")
    IN  IF \E i \in 1..Len(lines) : is_hdr(lines[i])
        THEN CHOOSE i \in 1..Len(lines) : is_hdr(lines[i]) /\ \A j \in 1..(i - 1) : ~is_hdr(lines[j])
        ELSE 0
RECURSIVE plan_a_loop(_, _, _, _, _)
\* lines 45-55: the rows under the header, up to the first blank or
\* number-less line after a pair
plan_a_loop(lines, i, pairs, bw_is_mb, lat_is_ns) ==
    IF i > Len(lines) THEN pairs
    ELSE IF IsBlank(lines[i])
    THEN (IF pairs # <<>> THEN pairs ELSE plan_a_loop(lines, i + 1, pairs, bw_is_mb, lat_is_ns))
    ELSE LET nums == findall(lines[i])
         IN  IF Len(nums) >= 2
             THEN plan_a_loop(lines, i + 1,
                              Append(pairs, <<to_gbps(nums[1], None, bw_is_mb),
                                              to_ns(nums[2], None, lat_is_ns)>>),
                              bw_is_mb, lat_is_ns)
             ELSE IF pairs # <<>> THEN pairs
             ELSE plan_a_loop(lines, i + 1, pairs, bw_is_mb, lat_is_ns)
\* lines 34-55
plan_a(lines, pairs) ==
    IF hdr_idx(lines) = 0 THEN pairs
    ELSE LET hdr == lower(lines[hdr_idx(lines)])
         IN  plan_a_loop(lines, hdr_idx(lines) + 1, pairs,
                         contains(hdr, "mb/s") \/ contains(hdr, "mbps"), contains(hdr, "ns"))
RECURSIVE plan_b_loop(_, _, _)
plan_b_loop(lines, i, pairs) ==
    IF i > Len(lines) THEN pairs
    ELSE LET m_bw == search(lines[i], BwUnits)
             m_lt == search(lines[i], LtUnits)
         IN  IF m_bw # None /\ m_lt # None
             THEN plan_b_loop(lines, i + 1,
                              Append(pairs, <<to_gbps(m_bw.val, Unit(m_bw.unit), FALSE),
                                              to_ns(m_lt.val, Unit(m_lt.unit), FALSE)>>))
             ELSE plan_b_loop(lines, i + 1, pairs)
\* (plan B also after a plan that found pairs)
plan_b_always(lines, pairs) == plan_b_loop(lines, 1, pairs)
\* lines 57-65
plan_b(lines, pairs) == IF pairs = <<>> THEN plan_b_loop(lines, 1, pairs) ELSE pairs
RECURSIVE plan_c_loop(_, _, _, _)
plan_c_loop(lines, i, pending_bw, pairs) ==
    IF i > Len(lines) THEN pairs
    ELSE LET m_bw == search(lines[i], BwUnits)
             m_lt == search(lines[i], LtUnits)
         IN  IF m_bw # None /\ m_lt = None
             THEN plan_c_loop(lines, i + 1, [k |-> "fin", t |-> {}, v |-> to_gbps(m_bw.val, Unit(m_bw.unit), FALSE)], pairs)
             ELSE IF m_lt # None /\ pending_bw # None
             THEN plan_c_loop(lines, i + 1, None,
                              Append(pairs, <<pending_bw.v, to_ns(m_lt.val, Unit(m_lt.unit), FALSE)>>))
             ELSE plan_c_loop(lines, i + 1, pending_bw, pairs)
\* lines 67-79
plan_c(lines, pairs) == IF pairs = <<>> THEN plan_c_loop(lines, 1, None, pairs) ELSE pairs

MaxLines == 3
\* lines of an MLC output: a header with units that ends with a carriage
\* return, a row of three numbers between tabs, two lines with both units,
\* a throughput line, a latency line, a blank line
LineUniverse ==
    <<"Latency(ns) Bandwidth(MB/s)\r", "00000\t284.06\t95288.4", "12.5 GB/s 80 ns",
      "bw=500MB/sec lat=2us", "throughput 3 GBps", "took 90.5 ns", "">>
RECURSIVE JoinLines(_)
JoinLines(ls) == IF ls = <<>> THEN "" ELSE Head(ls) \o "\n" \o JoinLines(Tail(ls))
Contents ==
    {JoinLines([i \in DOMAIN s |-> LineUniverse[s[i]]]) :
        s \in UNION {[1..j -> 1..Len(LineUniverse)] : j \in 0..MaxLines}}

\* series: the text of raw_file; args: rep_s; handles: lines; merged: pairs;
\* out: the rows appended to raw_csv
InitParse ==
    /\ pc = "start" /\ reduced = <<>> /\ NoSimdInputs /\ csv = NoFile
    /\ df = NoTable /\ scalar = NoTable /\ handles = <<>> /\ merged = <<>> /\ geo = NoTable
    /\ summary = NoTable /\ final = NoTable /\ calls = 0 /\ out = {} /\ err = NoError
    /\ script = "parse_loaded"
    /\ \/ args = <<"7">> /\ series \in Contents
       \/ args = <<"x">> /\ series = ""
RawCsvCols == {"rep", "bandwidth_gbs", "latency_ns"}
\* lines 4-30: rep, and the lines of the output with CR as LF and tabs as blanks
ParseRead ==
    /\ script = "parse_loaded" /\ pc = "start"
    /\ IF args[1] = "" \/ \E i \in 1..Len(args[1]) : ~IsDigit(Ch(args[1], i))
       THEN handles' = handles /\ Fail(Error("ValueError", {"rep"}))
       ELSE /\ handles' = splitlines(replace(replace(series, "\r", "\n"), "\t", "    "))
            /\ pc' = "A" /\ err' = err
    /\ UNCHANGED <<series, reduced, inputs, df, scalar, merged, geo, summary, final, calls, out>>
\* lines 32-55
PlanA ==
    /\ script = "parse_loaded" /\ pc = "A"
    /\ merged' = plan_a(handles, <<>>)
    /\ pc' = "B"
    /\ UNCHANGED <<series, reduced, inputs, df, scalar, handles, geo, summary, final, calls, out, err>>
\* lines 57-65
PlanB ==
    /\ script = "parse_loaded" /\ pc = "B"
    /\ merged' = plan_b(handles, merged)
    /\ pc' = "C"
    /\ UNCHANGED <<series, reduced, inputs, df, scalar, handles, geo, summary, final, calls, out, err>>
\* lines 67-79
PlanC ==
    /\ script = "parse_loaded" /\ pc = "C"
    /\ merged' = plan_c(handles, merged)
    /\ pc' = "write"
    /\ UNCHANGED <<series, reduced, inputs, df, scalar, handles, geo, summary, final, calls, out, err>>
\* lines 81-90: exit status 4 without a pair, else one row per pair
ParseWrite ==
    /\ script = "parse_loaded" /\ pc = "write"
    /\ IF merged = <<>>
       THEN out' = out /\ Fail(Error("SystemExit", {"4"}))
       ELSE /\ out' = {[file |-> "raw_csv",
                        table |-> Table(RawCsvCols,
                            [i \in 1..Len(merged) |->
                                [rep |-> IntText(ParseDigits(args[1])),
                                 bandwidth_gbs |-> Numeral(Frac(merged[i][1][1], merged[i][1][2]), 6),
                                 latency_ns |-> Numeral(Frac(merged[i][2][1], merged[i][2][2]), 6)]])]}
            /\ pc' = "done" /\ err' = err
    /\ UNCHANGED <<series, reduced, inputs, df, scalar, handles, merged, geo, summary, final, calls>>
NextParse == ParseRead \/ PlanA \/ PlanB \/ PlanC \/ ParseWrite
SpecParse == InitParse /\ [][NextParse]_vars

\* ------------------------------------------------------------------------
\* Properties
\* ------------------------------------------------------------------------
KeySet(rows, by) == {KeyOf(rows[i], by) : i \in 1..Len(rows)}
RowsWhere(rows, col, v) == Filter(rows, LAMBDA r : r[col] = v)
NoDuplicateKeys(rows, by) == Cardinality(KeySet(rows, by)) = Len(rows)

\* positions of the runs at which the join of each generator has been computed
AlignComputed == script = "align" /\ ~summary_csv.exists
AlignJoined == AlignComputed /\ pc \in {"group", "select", "append", "write", "done"}
AlignGrouped == AlignComputed /\ pc \in {"select", "append", "write", "done"}
TailJoined == script = "tail" /\ (pc \in {"append", "save", "done"} \/ calls = 1)
DtypeJoined == script = "dtype" /\ pc \in {"agg", "report", "done"}

DtypeKey == <<handles["kernel"], handles["dtype"], handles["n"], handles["stride"],
              handles["misalign"]>>

\* C1: inner-join semantics of the paired delta tables.  A join key is in the
\* joined table iff both sides have it: (kernel, dtype, stride) of the exact and
\* the tail aggregates in build_tail_delta_summary, (kernel, dtype, stride, n) of
\* the aligned and the misaligned samples in compute_summary_from_simd (whose
\* result has one row per (kernel, dtype, stride) of a joined key), and
\* (K, D, N, S, M) of simd and scalar in make_dtype_report; a key on one side
\* only is absent and the join raises nothing.
C1_InnerJoin ==
    /\ TailJoined =>
          /\ KeySet(summary.rows, GroupCols)
                = KeySet(RowsWhere(geo.rows, "tail_flag", 0), GroupCols)
                  \cap KeySet(RowsWhere(geo.rows, "tail_flag", 1), GroupCols)
          /\ NoDuplicateKeys(summary.rows, GroupCols)
          /\ pc = "append" => err = NoError
    /\ AlignJoined =>
          /\ KeySet(merged, key_cols)
                = KeySet(RowsWhere(df.rows, "misalign", 0), key_cols)
                  \cap KeySet(RowsWhere(df.rows, "misalign", 1), key_cols)
          /\ err = NoError
    /\ AlignGrouped =>
          /\ KeySet(summary.rows, GroupCols) = {SubSeq(k, 1, 3) : k \in KeySet(merged, key_cols)}
          /\ NoDuplicateKeys(summary.rows, GroupCols)
    /\ DtypeJoined =>
          /\ KeySet(merged, DtypeKey) = KeySet(df.rows, DtypeKey) \cap KeySet(scalar.rows, DtypeKey)
          /\ err = NoError

\* C1 witness: the tail report joined one key while another key, present on
\* the exact side only, was dropped
C1_Witness ==
    /\ script = "tail" /\ pc = "append" /\ Len(summary.rows) = 1
    /\ \E k \in KeySet(RowsWhere(geo.rows, "tail_flag", 0), GroupCols) :
          /\ k \notin KeySet(RowsWhere(geo.rows, "tail_flag", 1), GroupCols)
          /\ k \notin KeySet(summary.rows, GroupCols)

AlignBase == <<"gflops_al", "cpe_al", "GiBps_al">>
AlignPoint == <<"delta_gflops", "delta_cpe", "delta_GiBps">>
TailExact == <<"geo_gflops_exact", "geo_cpe_exact", "geo_gibps_exact">>
TailTreat == <<"geo_gflops_tail", "geo_cpe_tail", "geo_gibps_tail">>
TailGeo3 == <<"geo_gflops", "geo_cpe", "geo_gibps">>
NullOrZero(x) == IsNaN(x) \/ IsZero(x)
\* the joined rows behind row i of the align summary
AlignGroupOf(i) == GroupRows(merged, GroupCols, KeyOf(summary.rows[i], GroupCols))

\* C2: a zero or missing baseline gives a null relative change.  In the align
\* report a group with a joined pair whose aligned value is 0 or missing reports
\* null for that metric; in the tail report a key whose exact-multiple geometric
\* mean is 0 or missing reports null.
C2_NullOnZeroBaseline ==
    /\ AlignGrouped =>
          \A i \in 1..Len(summary.rows) : \A m \in 1..3 :
              (\E j \in 1..Len(AlignGroupOf(i)) : NullOrZero(AlignGroupOf(i)[j][AlignBase[m]]))
                  => IsNaN(summary.rows[i][AlignDeltaCols[m]])
    /\ (TailJoined /\ summary.rows # <<>>) =>
          \A i \in 1..Len(merged) : \A m \in 1..3 :
              NullOrZero(merged[i][TailExact[m]]) => IsNaN(summary.rows[i][TailDeltaCols[m]])

\* x <= -1 for a non-missing relative change x, i.e. 1 + x <= 0
AtMostMinusOne(x) == ~IsNaN(x) /\ ~Positive(XAdd(Num(1), x))

\* C3: in the align report, a group with a non-missing per-pair relative change
\* x <= -1 reports null for that metric (never a finite percentage).
C3_NullOnTotalLoss ==
    AlignGrouped =>
        \A i \in 1..Len(summary.rows) : \A m \in 1..3 :
            (\E j \in 1..Len(AlignGroupOf(i)) : AtMostMinusOne(AlignGroupOf(i)[j][AlignPoint[m]]))
                => IsNaN(summary.rows[i][AlignDeltaCols[m]])

\* C4: when the inner join has no rows, no later stage of the align or of the
\* tail generator raises.
C4_EmptyJoinTolerated ==
    ((AlignJoined \/ TailJoined) /\ merged = <<>>) => err = NoError

\* number of cells of a column that a geometric mean uses
Eligible(col) == Len(Filter(col, LAMBDA x : ~IsNaN(x) /\ Positive(x)))
TailGeoDone == script = "tail" /\ (pc \in {"delta", "append", "save", "done"} \/ calls = 1)
DtypeAggDone == script = "dtype" /\ pc \in {"report", "done"}

\* C10: in every aggregate row, samples is the number of records that
\* contributed to each derived statistic of the row, and a row with samples = 0
\* has only null statistics.
C10_SamplesCountContributors ==
    /\ TailGeoDone =>
          \A i \in 1..Len(geo.rows) :
              LET grp == GroupRows(df.rows, TailFlagCols, KeyOf(geo.rows[i], TailFlagCols))
              IN  /\ \A c \in Range(AlignMetrics) : geo.rows[i]["samples"] = Eligible(Column(grp, c))
                  /\ geo.rows[i]["samples"] = 0 =>
                        \A m \in 1..3 : IsNaN(geo.rows[i][TailGeo3[m]])
    /\ AlignGrouped =>
          \A i \in 1..Len(summary.rows) :
              /\ \A m \in 1..3 :
                    summary.rows[i]["samples"] = count(Column(AlignGroupOf(i), AlignPoint[m]))
              /\ summary.rows[i]["samples"] = 0 =>
                    \A m \in 1..3 : IsNaN(summary.rows[i][AlignDeltaCols[m]])
    /\ DtypeAggDone =>
          \A i \in 1..Len(summary.rows) :
              LET by == <<handles["dtype"], handles["kernel"], "region">>
                  grp == GroupRows(merged, by, KeyOf(summary.rows[i], by))
                  r == summary.rows[i]
              IN  (r["note"] = "" /\ r["region"] # "ALL") =>
                      /\ \A c \in {"speedup", "gflops_simd", "gflops_scalar", "cpe_simd", "cpe_scalar"} :
                            r["samples"] = Eligible(Column(grp, c))
                      /\ r["samples"] = 0 => \A c \in DtypeGeoCols : IsNaN(r[c])

\* the non-missing, strictly positive cells of the column, in order
EligibleCells == Filter(series, LAMBDA x : ~IsNaN(x) /\ Sign(x) = 1)
Reducer(f, col) == IF f = "geomean" THEN geomean(col) ELSE geom_mean(col)

\* C5: geomean and geom_mean return, for every column, what they return on its
\* non-missing strictly positive cells: null exactly when there is none (never
\* 0 or 1), else the positive g with g^k = the product of those k cells; so
\* [2, 8, -1] and [2, 8, 0] give 4 like [2, 8].
C5_GeomeanOfPositives ==
    \A f \in DOMAIN reduced :
        LET g == reduced[f]
            k == Len(EligibleCells)
        IN  /\ g = Reducer(f, EligibleCells)
            /\ IsNaN(g) <=> k = 0
            /\ k > 0 => /\ IsSingle(g) /\ Sign(g) = 1
                        /\ XPow(g, k) = XProd(EligibleCells)
            /\ series \in {<<Num(2), Num(8), Num(-1)>>, <<Num(2), Num(8), Num(0)>>,
                           <<Num(2), Num(8)>>} => g = Num(4)

\* C5 witness: both reducers returned 4 for [2, 8, -1]
C5_Witness ==
    /\ series = <<Num(2), Num(8), Num(-1)>>
    /\ DOMAIN reduced = {"geomean", "geom_mean"}
    /\ reduced["geomean"] = Num(4) /\ reduced["geom_mean"] = Num(4)

AlignTreat == <<"gflops_mi", "cpe_mi", "GiBps_mi">>
AllPositive(col) == \A j \in 1..Len(col) : Positive(col[j]) /\ IsSingle(col[j])
\* pct = (T / B - 1) * 100 for a positive B, cross-multiplied
RatioIs(pct, T, B) == IsFin(pct) /\ XMul(XAdd(Num(1), XScale(pct, Rat(1, 100))), B) = T
\* the geometric mean of a metric over the loaded samples of one side of a key
TailSide(i, flag, m) ==
    geom_mean(Column(GroupRows(df.rows, TailFlagCols,
                               KeyOf(summary.rows[i], GroupCols) \o <<flag>>), AlignMetrics[m]))
AlignSide(i, v, m) ==
    Column(Filter(df.rows, LAMBDA r : /\ KeyOf(r, GroupCols) = KeyOf(summary.rows[i], GroupCols)
                                      /\ r["misalign"] = v), AlignMetrics[m])
\* the tail report divides the two sides' geometric means of the key
TailDeltaOfAggregates ==
    (TailJoined /\ summary.rows # <<>>) =>
        \A i \in 1..Len(summary.rows) : \A m \in 1..3 :
            LET T == TailSide(i, 1, m)
                B == TailSide(i, 0, m)
                pct == summary.rows[i][TailDeltaCols[m]]
            IN  IF IsNaN(T) \/ IsNaN(B) THEN IsNaN(pct) ELSE RatioIs(pct, T, B)
\* three (or fewer) samples of 10.0 against samples of 9.0 under (dot, f32, 1)
ScenarioDelta ==
    (simd_csv \in ScenarioTables(script) /\ (AlignGrouped \/ TailJoined)) =>
        /\ Len(summary.rows) = 1
        /\ KeyOf(summary.rows[1], GroupCols) = KeyC
        /\ \A m \in 1..3 :
              summary.rows[1][IF script = "tail" THEN TailDeltaCols[m] ELSE AlignDeltaCols[m]]
                  = Num(-10)

\* C6 as stated: for every matched key the reported percentage is
\* (treatment aggregate / baseline aggregate - 1) * 100, the aggregates being the
\* geometric means of the two sides' samples of the key (positive samples).
C6_DeltaOfSideAggregates ==
    /\ TailDeltaOfAggregates
    /\ AlignGrouped =>
          \A i \in 1..Len(summary.rows) : \A m \in 1..3 :
              (AllPositive(AlignSide(i, 0, m)) /\ AllPositive(AlignSide(i, 1, m))) =>
                  RatioIs(summary.rows[i][AlignDeltaCols[m]],
                          geom_mean(AlignSide(i, 1, m)), geom_mean(AlignSide(i, 0, m)))

\* C6 (amended): in the tail report the percentage of a matched key is
\* (geo_tail / geo_exact - 1) * 100 of the two sides' geometric means, null when
\* either is null; in the align report it is (T / B - 1) * 100 where T and B are
\* the geometric means of the misaligned and of the aligned value over the
\* group's joined (same n) pairs, whenever those values are all positive; 1..3
\* samples of 10.0 against 1..3 samples of 9.0 under (dot, f32, 1) give -10.
C6_DeltaOfAggregates ==
    /\ TailDeltaOfAggregates
    /\ AlignGrouped =>
          \A i \in 1..Len(summary.rows) : \A m \in 1..3 :
              LET al == Column(AlignGroupOf(i), AlignBase[m])
                  mi == Column(AlignGroupOf(i), AlignTreat[m])
              IN  (AllPositive(al) /\ AllPositive(mi)) =>
                      RatioIs(summary.rows[i][AlignDeltaCols[m]], geom_mean(mi), geom_mean(al))
    /\ ScenarioDelta

\* C6 witness: the tail report finished on three samples of 10.0 and three of
\* 9.0 and wrote -10 for (dot, f32, 1)
C6_Witness ==
    /\ script = "tail" /\ pc = "done" /\ Len(simd_csv.rows) = 6
    /\ simd_csv \in ScenarioTables("tail")
    /\ final.rows[1]["delta_gflops_%"] = Num(-10)
    /\ final.rows[1]["samples_exact"] = 3 /\ final.rows[1]["samples_tail"] = 3

\* the non-missing per-pair relative changes behind row i of the align summary
AlignXs(i, m) == dropna(Column(AlignGroupOf(i), AlignPoint[m]))
OnePlus(xs) == [j \in 1..Len(xs) |-> XAdd(Num(1), xs[j])]
AllFinite(xs) == \A j \in 1..Len(xs) : IsFin(xs[j])

\* C7 as stated: for the k >= 1 non-missing (finite) per-pair relative changes
\* of a group, r = percentage / 100 is a number with (1 + r)^k = prod (1 + x_i).
C7_PowerIsProduct ==
    AlignGrouped =>
        \A i \in 1..Len(summary.rows) : \A m \in 1..3 :
            LET xs == AlignXs(i, m)
                pct == summary.rows[i][AlignDeltaCols[m]]
            IN  (xs # <<>> /\ AllFinite(xs)) =>
                    /\ IsFin(pct)
                    /\ XPow(XAdd(Num(1), XScale(pct, Rat(1, 100))), Len(xs)) = XProd(OnePlus(xs))

\* C7 (amended): for the k >= 1 non-missing per-pair relative changes of a
\* group, when all are finite and >= -1 the percentage is 100 * r with
\* (1 + r)^k = prod (1 + x_i); when some x_i < -1 the percentage is null;
\* [0, 0] gives 0 and [+1, -0.5] gives 0.
C7_GeometricMeanOfChanges ==
    AlignGrouped =>
        \A i \in 1..Len(summary.rows) : \A m \in 1..3 :
            LET xs == AlignXs(i, m)
                pct == summary.rows[i][AlignDeltaCols[m]]
            IN  /\ (xs # <<>> /\ AllFinite(xs) /\ \A j \in 1..Len(xs) : Sign(OnePlus(xs)[j]) >= 0) =>
                      /\ IsFin(pct)
                      /\ XPow(XAdd(Num(1), XScale(pct, Rat(1, 100))), Len(xs)) = XProd(OnePlus(xs))
                /\ (\E j \in 1..Len(xs) : Sign(OnePlus(xs)[j]) < 0) => IsNaN(pct)
                /\ xs \in {<<Num(0), Num(0)>>, <<Num(1), Frac(-1, 2)>>, <<Frac(-1, 2), Num(1)>>}
                      => pct = Num(0)

\* C7 witness: a group whose cycles-per-element changes are +1 and -0.5
\* reported 0
C7_Witness ==
    /\ AlignGrouped /\ pc = "done"
    /\ \E i \in 1..Len(summary.rows) :
          /\ Range(AlignXs(i, 2)) = {Num(1), Frac(-1, 2)}
          /\ summary.rows[i]["geo_mean_delta_cpe_%"] = Num(0)

\* the summary appender has returned
Appended ==
    \/ script = "align" /\ pc \in {"write", "done"}
    \/ script = "tail" /\ pc \in {"save", "done"}
MetricCols == IF script = "align" THEN AlignDeltaCols ELSE TailDeltaCols
CountCols == IF script = "align" THEN {"samples"} ELSE {"samples_exact", "samples_tail"}
AllRow == final.rows[Len(final.rows)]
CountsAreSums == \A c \in CountCols : AllRow[c] = ISum(Column(summary.rows, c))

\* C8 as stated: each metric of the ALL row is the sum of the column over all
\* existing rows divided by their number, and each count is the sum of counts.
C8_AllRowIsMeanOfAllRows ==
    (Appended /\ summary.rows # <<>>) =>
        /\ \A m \in 1..3 :
              XScale(AllRow[MetricCols[m]], RatInt(Len(summary.rows)))
                  = XSum(Column(summary.rows, MetricCols[m]))
        /\ CountsAreSums

\* C8 (amended): each metric of the row added by append_overall_mean is the
\* unweighted arithmetic mean of the column's non-missing cells (null when the
\* column has none), and each count is the sum of the rows' counts; deltas
\* [+10, -10, +5] with counts [4, 4, 2] give 5/3 and 10.
C8_AllRowIsMeanOfPresent ==
    Appended =>
        /\ \A m \in 1..3 :
              LET vals == dropna(Column(summary.rows, MetricCols[m]))
              IN  IF vals = <<>> THEN IsNaN(AllRow[MetricCols[m]])
                  ELSE XScale(AllRow[MetricCols[m]], RatInt(Len(vals))) = XSum(vals)
        /\ CountsAreSums
        /\ (/\ script = "align"
            /\ Column(summary.rows, "geo_mean_delta_gflops_%") = <<Num(10), Num(-10), Num(5)>>
            /\ Column(summary.rows, "samples") = <<4, 4, 2>>) =>
                AllRow["geo_mean_delta_gflops_%"] = Frac(5, 3) /\ AllRow["samples"] = 10

\* C8 witness: the align report finished on deltas [+10, -10, +5] with counts
\* [4, 4, 2], one of the three rows having no cycles-per-element delta
C8_Witness ==
    /\ script = "align" /\ pc = "done"
    /\ Column(summary.rows, "geo_mean_delta_gflops_%") = <<Num(10), Num(-10), Num(5)>>
    /\ Column(summary.rows, "samples") = <<4, 4, 2>>
    /\ AllRow["geo_mean_delta_gflops_%"] = Frac(5, 3) /\ AllRow["samples"] = 10
    /\ AllRow["geo_mean_delta_cpe_%"] = Frac(1, 2)

\* C9: in every run of make_align_report and make_tail_report the appender is
\* called at most once, and exactly once in a run that finishes; the call leaves
\* its input table as it was and returns the input rows, in order, followed by
\* one row with kernel = "ALL"; after the call nothing is grouped, joined or
\* averaged again: the tables stay as they are and the files hold the result.
C9_AppendedOnce ==
    /\ [](/\ calls <= 1
          /\ (script \in {"align", "tail"} /\ pc = "done") => calls = 1
          /\ Appended =>
                /\ calls = 1
                /\ final.cols = summary.cols
                /\ final.rows = summary.rows \o <<AllRow>>
                /\ AllRow["kernel"] = "ALL"
                /\ \A i \in 1..Len(summary.rows) : summary.rows[i]["kernel"] # "ALL"
          /\ script \in {"align", "tail"} => \A o \in out : o.table = final)
    /\ [][/\ calls' # calls => /\ calls' = calls + 1
                               /\ UNCHANGED <<df, merged, geo, summary>>
          /\ calls = 1 => UNCHANGED <<df, merged, geo, summary, final, calls>>]_vars

\* C9 witness: the align report computed one group from simd.csv, appended the
\* ALL row after it and finished
C9_Witness ==
    /\ AlignComputed /\ pc = "done" /\ calls = 1
    /\ Len(summary.rows) = 1 /\ Len(final.rows) = 2
    /\ final.rows[1] = summary.rows[1]
    /\ final.rows[2]["kernel"] = "ALL"
    /\ out # {}

\* the rows of the report before the ALL row
PerGroupRows == SubSeq(final.rows, 1, Len(final.rows) - 1)

\* C11: in every report of make_align_report and make_tail_report the rows
\* before the ALL row are in strictly ascending lexicographic order of
\* (kernel, dtype, stride), so no key is repeated, whether the table was
\* computed from data/simd.csv or read from data/aln_vs_mis_summary.csv.
C11_RowsSortedByKey ==
    Appended =>
        \A i \in 1..(Len(PerGroupRows) - 1) :
            TupleLess(KeyOf(PerGroupRows[i], GroupCols),
                      KeyOf(PerGroupRows[i + 1], GroupCols), GroupCols)


\* C12: a statistic without eligible samples and a ratio without a usable
\* denominator is written as null, an empty cell or "nan", never as the
\* number 0: in the table of section 5 the Std cell of a bucket of one sample
\* is not a zero, and in the table of section 7 the miss_rate_mean cell of a
\* stride none of whose rows has a positive parseable cache_references is not
\* a zero.
NoDenominator(r) == r["cache_references"] = Unparsed \/ ~Positive(r["cache_references"])
C12_NullNeverZero ==
    /\ (script = "sec5" /\ pc = "done") =>
          \A i \in 1..Len(summary.rows) :
             summary.rows[i]["count"] = 1 => ~IsZeroText(final.rows[i]["Std (ns)"])
    /\ (script = "sec7" /\ pc = "done") =>
          \A i \in 1..Len(summary.rows) :
             (\A j \in 1..Len(csv.rows) :
                 fillna0(to_numeric(csv.rows[j]["stride"])) = summary.rows[i]["stride"]
                    => NoDenominator(csv.rows[j]))
             => ~IsZeroText(final.rows[i]["miss_rate_mean"])


\* C13: an input table lacking the optional "verified" or "misalign" column
\* is accepted by make_align_report, make_stride_report and make_tail_report:
\* with every other column present, no run ends with an error about the
\* column it lacks.
LacksOnlyOptional ==
    /\ simd_csv.exists /\ ~summary_csv.exists
    /\ SimdCols \ simd_csv.cols # {}
    /\ SimdCols \ simd_csv.cols \subseteq {"verified", "misalign"}
C13_OptionalColumnsSkipped ==
    (script \in {"align", "tail", "stride"} /\ LacksOnlyOptional)
       => ~(pc = "failed" /\ err.names \subseteq {"verified", "misalign"})


\* what the tokens of the expression ask of a row: every key=value token
\* whose key resolves to a column (ignoring letter case) holds for the row,
\* a value of decimal digits as a number, any other value as the cell's text
Resolves(key, cols) == \E c \in cols : Lower(c) = Lower(key)
ColumnOf(key, cols) == CHOOSE c \in cols : Lower(c) = Lower(key)
Holds(tok, r, cols) ==
    (tok.kind = "kv" /\ Resolves(tok.key, cols)) =>
        IF IsDecimal(tok.val)
        THEN EqualsInt(ColumnOf(tok.key, cols), r[ColumnOf(tok.key, cols)], int(tok.val))
        ELSE astype_str(ColumnOf(tok.key, cols), r[ColumnOf(tok.key, cols)]) = Join(tok.val)
Satisfying(t, toks) ==
    Table(t.cols, Filter(t.rows, LAMBDA r : \A i \in 1..Len(toks) : Holds(toks[i], r, t.cols)))
Applied == script = "apply_filters" /\ "once" \in DOMAIN reduced
\* a value that str.isdigit() accepts and int() rejects
BadDigits(tok) == tok.kind = "kv" /\ isdigit(tok.val) /\ ~IsDecimal(tok.val)

\* C14 as stated: apply_filters(df, expr) returns exactly the rows of df, in
\* order and unmodified, that satisfy every key=value token whose key
\* resolves to a column; unknown keys, empty tokens and tokens without "="
\* change nothing and raise nothing.
C14_ExactlyTheSatisfyingRows ==
    Applied => reduced["once"] = Returned(Satisfying(df, series))
\* C14, amended: the same for expressions whose digit-only values are decimal
\* digits.
C14_SatisfyingRowsOfDecimalTokens ==
    (Applied /\ \A i \in 1..Len(series) :
                    ~(BadDigits(series[i]) /\ Resolves(series[i].key, df.cols)))
       => reduced["once"] = Returned(Satisfying(df, series))
C14_Witness ==
    /\ Applied /\ Len(series) = 2
    /\ series[1].key = "Stride" /\ series[2].key = "foo"
    /\ Len(df.rows) = 2 /\ "stride" \in df.cols /\ df.rows[2]["stride"] # 1
    /\ reduced["once"].table.rows = <<df.rows[1]>>

\* C15: filtering is idempotent: a second application of apply_filters with
\* the same expression, and of filter_ok, returns what the first returned
\* (and raises what the first raised).
C15_Idempotent ==
    (script \in {"apply_filters", "filter_ok"} /\ "twice" \in DOMAIN reduced)
       => reduced["twice"] = reduced["once"]
C15_Witness ==
    /\ "twice" \in DOMAIN reduced /\ reduced["once"].err = NoError
    /\ Len(df.rows) = 2 /\ Len(reduced["once"].table.rows) = 1
    /\ script = "filter_ok"


\* C16: when a required column (kernel, dtype, n, stride, gflops, cpe) cannot
\* be resolved in a loaded input table, the run fails with a missing-column
\* error that names both the missing field and the file, and the run writes
\* no output file.
RequiredFields == {"kernel", "dtype", "n", "stride", "gflops", "cpe"}
InputFiles == {"data/simd.csv", "data/scalar.csv", "data/aln_vs_mis_summary.csv"}
Unresolved(file) ==
    {f \in RequiredFields : file.exists /\ ~\E c \in file.cols : Lower(c) = f}
C16_MissingColumnNamesFieldAndFile ==
    (/\ script \in {"stride", "tail", "dtype"}
     /\ pc \in {"failed", "done"}
     /\ Unresolved(simd_csv) # {}
     /\ script = "dtype" => scalar_csv.exists)
       => /\ pc = "failed" /\ out = {}
          /\ err.names \cap RequiredFields # {}
          /\ err.names \cap InputFiles # {}

\* C17: in make_dtype_report an input in which every required field appears,
\* under some letter case, in data/scalar.csv and in data/simd.csv passes
\* the validation and the run goes on through the join.
FieldsPresent(file) ==
    file.exists /\ \A f \in Range(DtypeNeeded) : \E c \in file.cols : Lower(c) = f
C17_OtherLetterCaseAccepted ==
    (script = "dtype" /\ FieldsPresent(scalar_csv) /\ FieldsPresent(simd_csv))
       => pc # "failed"


\* C18: a run whose required input file does not exist fails at once with an
\* error naming the missing file and writes no output; make_align_report
\* uses data/aln_vs_mis_summary.csv when it exists and then never reads
\* data/simd.csv, uses data/simd.csv only when the summary is absent, and
\* fails for a missing file only when both are absent.
MissingInputs ==
    CASE script = "align" ->
            IF summary_csv.exists \/ simd_csv.exists THEN {}
            ELSE {"data/simd.csv", "data/aln_vs_mis_summary.csv"}
      [] script = "dtype" ->
            (IF scalar_csv.exists THEN {} ELSE {"data/scalar.csv"})
            \cup (IF simd_csv.exists THEN {} ELSE {"data/simd.csv"})
      [] OTHER -> IF simd_csv.exists THEN {} ELSE {"data/simd.csv"}
FileNotFound == pc = "failed" /\ err.type = "FileNotFoundError"
C18_MissingFileFailsAtOnce ==
    /\ (MissingInputs # {} /\ pc # "start")
          => FileNotFound /\ err.names \cap MissingInputs # {} /\ out = {}
    /\ FileNotFound => MissingInputs # {} /\ err.names \subseteq InputFiles
    /\ (script = "align" /\ summary_csv.exists)
          => /\ df = NoTable /\ merged = <<>>
             /\ pc = "select" => summary = Table(summary_csv.cols, summary_csv.rows)
    /\ (script = "align" /\ ~summary_csv.exists /\ simd_csv.exists /\ pc \notin {"start", "load"})
          => df = KeepVerified(RenameGiBps(Table(simd_csv.cols, simd_csv.rows)))
C18_Witness ==
    /\ script = "align" /\ ~summary_csv.exists /\ ~simd_csv.exists
    /\ FileNotFound /\ out = {}


\* an input with the expected columns that lacks every sample of some group
HasColumns ==
    csv.exists /\ (IF script = "sec2" THEN Sec2Cols ELSE Sec4Cols) \subseteq csv.cols
Sparse ==
    IF script = "sec2"
    THEN \E lv \in Range(levels), r \in Range(rw_types) :
            \A i \in 1..Len(csv.rows) : ~(csv.rows[i]["level"] = lv /\ csv.rows[i]["rw"] = r)
    ELSE \E i, j \in 1..Len(csv.rows) :
            \A k \in 1..Len(csv.rows) :
                ~(csv.rows[k]["mode"] = csv.rows[i]["mode"]
                  /\ csv.rows[k]["read_pct"] = csv.rows[j]["read_pct"])

\* C19: data sparsity never aborts a report: plot_sec2 and plot_sec4 on an
\* input that has the expected columns but lacks every sample of some
\* expected group still complete.
C19_SparseDataCompletes ==
    (script \in {"sec2", "sec4"} /\ HasColumns /\ Sparse) => pc # "failed"


\* the small-N rows of the filtered table: n <= 131072 (regions L1 and L2)
\* when regions are tagged, n <= 8192 when they are not
SmallN ==
    Filter(df.rows, LAMBDA r : r[handles.N] <= (IF args[2] THEN 131072 ELSE 8192))
PeakOf(rows) == XMul(quantile(Column(rows, handles.G), Rat(98, 100)), Frac(115, 100))
\* C20: in make_roofline_report without --peak_gflops, P_peak is 1.15 times
\* the 98th-percentile GFLOP/s of the small-N rows of the filtered SIMD table
\* whenever one exists, with or without --regionize, and of all rows only
\* when there is none.
C20_PeakFromSmallN ==
    (script = "roofline" /\ pc = "aggregate" /\ args[3] = None /\ handles.N \in df.cols) =>
        reduced["P_peak"] = (IF Len(SmallN) > 0 THEN PeakOf(SmallN) ELSE PeakOf(df.rows))


\* the region the report text gives a size: L1 up to 8K, L2 up to 128K, LLC
\* up to 4M, DRAM above
RegionOf(n, r) ==
    /\ r \in {"L1", "L2", "LLC", "DRAM"}
    /\ (r = "L1") <=> (n <= 8192)
    /\ (r = "L2") <=> (8192 < n /\ n <= 131072)
    /\ (r = "LLC") <=> (131072 < n /\ n <= 4194304)
    /\ (r = "DRAM") <=> (n > 4194304)
\* C21: region_by_n classifies every problem size into exactly one region,
\* with the thresholds 8192, 131072 and 4194304 inclusive, and the functions
\* of make_dtype_report and make_roofline_report return the same region.
C21_RegionByN ==
    (script = "region_by_n" /\ pc = "done") =>
        /\ RegionOf(series[1], reduced["dtype"])
        /\ RegionOf(series[1], reduced["roofline"])
        /\ reduced["dtype"] = reduced["roofline"]
C21_Witness ==
    /\ script = "region_by_n" /\ pc = "done"
    /\ series[1] = 131072 /\ reduced["dtype"] = "L2" /\ reduced["roofline"] = "L2"


\* the samples load_and_flag_tail is to keep, and the vector width of a dtype
Aligned == Filter(simd_csv.rows, LAMBDA r : r["verified"] = 1 /\ r["misalign"] = 0)
Width(dtype) == IF dtype = "f32" THEN f32_lanes ELSE f64_lanes
ExactMultiple(n, w) == \E k \in 0..n : n = k * w
\* C22: load_and_flag_tail keeps exactly the rows with verified = 1 and
\* misalign = 0, and gives each kept row tail_flag = 0 iff its n is an exact
\* multiple of its vector width (f32_lanes for "f32", f64_lanes for every
\* other dtype) and tail_flag = 1 otherwise.
C22_KeptRowsAndFlags ==
    (script = "tail" /\ "tail_flag" \in df.cols) =>
        /\ Len(df.rows) = Len(Aligned)
        /\ \A i \in 1..Len(df.rows) :
            /\ \A c \in simd_csv.cols : df.rows[i][c] = Aligned[i][c]
            /\ df.rows[i]["tail_flag"] \in {0, 1}
            /\ (df.rows[i]["tail_flag"] = 0)
                   <=> ExactMultiple(Aligned[i]["n"], Width(Aligned[i]["dtype"]))
C22_Witness ==
    /\ script = "tail" /\ "tail_flag" \in df.cols
    /\ Len(simd_csv.rows) = 2 /\ Len(df.rows) = 1
    /\ df.rows[1]["dtype"] = "f64" /\ df.rows[1]["n"] = 12 /\ df.rows[1]["tail_flag"] = 0


\* the distinct sizes of a dtype, and the one with exactly k smaller ones
SizesOf(dt) == {df.rows[i]["n"] : i \in {j \in 1..Len(df.rows) : df.rows[j]["dtype"] = dt}}
Ranked(S, k) == CHOOSE x \in S : Cardinality({y \in S : y < x}) = k
\* C23: pick_three_Ns returns for each dtype a strictly increasing list of
\* one to three of its distinct n: [min], [min, max], or [min, the size at
\* index len // 2 of the ascending list, max]; the first element is the
\* smallest n and the last the largest.
C23_PickThree ==
    (script = "pick_three_Ns" /\ pc = "done") =>
        \A dt \in DOMAIN reduced :
            LET S == SizesOf(dt)
                L == reduced[dt]
                k == Cardinality(S)
            IN  /\ Len(L) \in 1..3
                /\ \A i \in 1..Len(L) : L[i] \in S
                /\ \A i \in 1..(Len(L) - 1) : L[i] < L[i + 1]
                /\ L[1] = Ranked(S, 0) /\ L[Len(L)] = Ranked(S, k - 1)
                /\ Len(L) = (IF k >= 3 THEN 3 ELSE k)
                /\ k >= 3 => L[2] = Ranked(S, k \div 2)
C23_Witness ==
    /\ script = "pick_three_Ns" /\ pc = "done"
    /\ "f32" \in DOMAIN reduced /\ Cardinality(SizesOf("f32")) = 4
    /\ reduced["f32"] = <<16, 256, 1024>>


\* the rows of the input in the group of r, its stride = 1 rows, and what
\* the relative value of r is to be
GroupOf(r) == Filter(df.rows, LAMBDA d : KeyOf(d, NormKeys) = KeyOf(r, NormKeys))
BasesOf(r) == Filter(GroupOf(r), LAMBDA d : d["stride"] = 1)
UsableBase(b) == IsFin(b) /\ ~IsZero(b)
RelOf(r, col) ==
    IF BasesOf(r) = <<>> THEN NaN
    ELSE IF ~UsableBase(BasesOf(r)[1][col]) THEN NaN
    ELSE XDiv(r[col], BasesOf(r)[1][col])
Occurrences(rows, cols, d) ==
    Cardinality({i \in 1..Len(rows) : [c \in cols |-> rows[i][c]] = d})
Classified == script = "roofline" /\ pc \in {"report", "done"}
RoofsPositive ==
    /\ IsFin(reduced["P_peak"]) /\ Positive(reduced["P_peak"])
    /\ IsFin(reduced["B_mem"]) /\ Positive(reduced["B_mem"])
DefinedAI(r) == IsFin(r["gmean_ai"]) /\ Positive(r["gmean_ai"])
PeakRoof == AsRat(reduced["P_peak"])
MemoryRoof(r) == RatMul(AsRat(reduced["B_mem"]), AsRat(r["gmean_ai"]))
\* C25: for every group with a finite positive AI, under positive P_peak and
\* B_mem, pred_cap = min(P_peak, B_mem * AI) and the group is Memory-bound iff
\* B_mem * AI < 0.98 * P_peak, Compute-bound otherwise; so a Memory-bound
\* group has pred_cap = B_mem * AI and a group capped by P_peak is
\* Compute-bound.  A group with an undefined AI has null pred_cap and util_%.
C25_RooflineClassification ==
    Classified =>
        \A i \in 1..Len(summary.rows) :
            LET r == summary.rows[i]
            IN  /\ (RoofsPositive /\ DefinedAI(r)) =>
                     /\ r["pred_cap"] = (IF RatLess(MemoryRoof(r), PeakRoof)
                                         THEN Frac(MemoryRoof(r)[1], MemoryRoof(r)[2])
                                         ELSE reduced["P_peak"])
                     /\ (r["bottleneck"] = "Memory-bound")
                            <=> RatLess(MemoryRoof(r), RatMul(Rat(98, 100), PeakRoof))
                     /\ r["bottleneck"] \in {"Memory-bound", "Compute-bound"}
                     /\ r["bottleneck"] = "Memory-bound"
                            => r["pred_cap"] = Frac(MemoryRoof(r)[1], MemoryRoof(r)[2])
                     /\ r["pred_cap"] = reduced["P_peak"] => r["bottleneck"] = "Compute-bound"
                /\ IsNaN(r["gmean_ai"]) => IsNaN(r["pred_cap"]) /\ IsNaN(r["util_%"])
C25_Witness ==
    /\ Classified /\ RoofsPositive
    /\ \E i, j \in 1..Len(summary.rows) :
          /\ IsNaN(summary.rows[i]["gmean_ai"]) /\ IsNaN(summary.rows[i]["pred_cap"])
          /\ DefinedAI(summary.rows[j])
          /\ summary.rows[j]["bottleneck"] = "Compute-bound"
          /\ summary.rows[j]["pred_cap"] = reduced["P_peak"]

\* the six time percentiles of a row of m are non-negative numbers
NonNegativeTimes(r) ==
    \A c \in {"time_ns_med_sc", "time_ns_p05_sc", "time_ns_p95_sc",
              "time_ns_med_si", "time_ns_p05_si", "time_ns_p95_si"} : IsFin(r[c]) /\ Sign(r[c]) >= 0
ELeq(a, b) == a.k # "nan" /\ b.k # "nan" /\ ~ELess(b, a)
\* C26: in plot_speedup, every point computed from non-negative time
\* percentiles (p05 and p95 swapped or equal included) has, after the numeric
\* cleanup and the order correction, 0 <= y_low <= y_high and two
\* non-negative error-bar components max(0, y_med - y_low) and
\* max(0, y_high - y_med).
C26_ErrorBarsOrdered ==
    (script = "plot" /\ pc = "gflops") =>
        \A i \in 1..Len(summary.rows) :
            NonNegativeTimes(df.rows[i]) =>
                LET p == summary.rows[i]
                IN  /\ ELeq(p.y_low, p.y_high)
                    /\ ELeq(EZero, p.y_low) /\ ELeq(EZero, p.y_high)
                    /\ ELeq(EZero, p.yerr_low) /\ ELeq(EZero, p.yerr_high)

\* the rows of the loaded-latency CSV whose two fields are numbers
Sec5Valid ==
    Filter(csv.rows, LAMBDA r : ~IsNaN(to_numeric(r["bandwidth_gbs"]))
                                /\ ~IsNaN(to_numeric(r["latency_ns"])))
\* b is a multiple of 0.25 with no other multiple nearer to bw
Nearest(b, bw) ==
    LET d == RatSub(AsRat(bw), AsRat(b))
    IN  /\ RatMul(AsRat(b), RatInt(4))[2] = 1
        /\ ~RatLess(Rat(1, 8), d) /\ ~RatLess(d, Rat(-1, 8))
Increasing(rows) ==
    \A i \in 1..(Len(rows) - 1) :
        Sign(XSub(rows[i + 1]["bandwidth_gbs"], rows[i]["bandwidth_gbs"])) > 0
BucketPoint(rows, j) ==
    [bw |-> Numeral(rows[j]["bandwidth_gbs"], 2), lat |-> Numeral(rows[j]["mean"], 1)]
\* C27: in plot_sec5 every valid sample is in exactly one throughput bucket,
\* a nearest multiple of 0.25 GB/s, and the counts of the buckets sum to the
\* number of valid rows; the knee is a bucket point (its throughput and its
\* mean latency) when there are three buckets or more with strictly
\* increasing throughput, and "N/A" in every other case.
C27_BucketsAndKnee ==
    (script = "sec5" /\ pc \in {"write", "done"}) =>
        /\ Len(df.rows) = Len(Sec5Valid)
        /\ \A i \in 1..Len(df.rows) :
              /\ df.rows[i]["bandwidth_gbs"] = Sec5Valid[i]["bandwidth_gbs"]
              /\ Nearest(df.rows[i]["bw_bucket"], Sec5Valid[i]["bandwidth_gbs"])
              /\ Cardinality({j \in 1..Len(summary.rows) :
                                 summary.rows[j]["bandwidth_gbs"] = df.rows[i]["bw_bucket"]}) = 1
        /\ ISum(Column(summary.rows, "count")) = Len(Sec5Valid)
        /\ IF Len(summary.rows) >= 3 /\ Increasing(summary.rows)
           THEN \E j \in 1..Len(summary.rows) : handles[1] = BucketPoint(summary.rows, j)
           ELSE handles[1] = NoKnee
\* three buckets, one of them reached by rounding a tie, and a knee
C27_Witness ==
    /\ script = "sec5" /\ pc = "done"
    /\ Len(summary.rows) >= 3
    /\ handles[1] # NoKnee
    /\ \E i \in 1..Len(df.rows) : df.rows[i]["bw_bucket"] # df.rows[i]["bandwidth_gbs"]

\* what each plan finds in the lines when it runs on its own
AlonePairs == <<plan_a(handles, <<>>), plan_b(handles, <<>>), plan_c(handles, <<>>)>>
\* the pairs of the first plan, in the order A, B, C, that finds one
FirstPlanPairs ==
    IF AlonePairs[1] # <<>> THEN AlonePairs[1]
    ELSE IF AlonePairs[2] # <<>> THEN AlonePairs[2]
    ELSE AlonePairs[3]
\* C28: parse_loaded tries plan A, then B, then C; a plan leaves the pairs
\* of an earlier plan as they are, so the pairs written are those that the
\* first plan with a pair finds on its own, and never a mix of two plans.
C28_OnePlanInOrder ==
    /\ [][script = "parse_loaded" =>
             /\ (pc = "A" /\ pc' # pc) => pc' = "B"
             /\ (pc = "B" /\ pc' # pc) => pc' = "C" /\ (merged # <<>> => merged' = merged)
             /\ (pc = "C" /\ pc' # pc) => pc' = "write" /\ (merged # <<>> => merged' = merged)]_vars
    /\ []((script = "parse_loaded" /\ pc \in {"write", "done"}) => merged = FirstPlanPairs)
    /\ []((script = "parse_loaded" /\ pc = "done") =>
             \A f \in out : Len(f.table.rows) = Len(FirstPlanPairs))
\* plan A found pairs in lines in which plan B would find other pairs
C28_Witness ==
    /\ script = "parse_loaded" /\ pc = "done"
    /\ AlonePairs[1] # <<>> /\ AlonePairs[2] # <<>> /\ AlonePairs[1] # AlonePairs[2]
    /\ merged = AlonePairs[1]

====
